---------------------------- MODULE Spec2Model ----------------------------
(***************************************************************************)
(* A model of the T2T (test-plan-to-topology) import pipeline of Threat    *)
(* Dragon Enhanced: the DFDIR container, the converter's validation gate,  *)
(* the layout engine, the pattern library and the entity extractor.        *)
(*                                                                         *)
(* The module holds several specifications over one set of variables; each *)
(* specification drives one component and leaves the others' variables at  *)
(* their initial values:                                                   *)
(*   SpecDFDIR    addElement / addFlow / removeElement / removeFlow and    *)
(*                convert on one DFDIR instance                            *)
(*   SpecLayout   calculateLayout on bounded node and connection lists     *)
(*   SpecPatterns the PatternHelpers called in any order in one process    *)
(*   SpecExtract  EntityExtractor.extract called repeatedly in one process *)
(*   SpecVision, SpecNarrative, SpecLeveling, SpecOverlap, SpecCells       *)
(*                extraction with a vision result, narrative texts, deep   *)
(*                hierarchies, overlap prevention, cell styling            *)
(*   SpecRender   cell validation, auto-fix and drawGraph on cell arrays   *)
(*   SpecImport   the JSON import on the converter's output and on files   *)
(*   SpecPipeline the DFDIR operations with convertAndValidate             *)
(*   SpecWizard   the import wizard with its async methods in flight       *)
(***************************************************************************)
EXTENDS Integers, Sequences, FiniteSets, TLC

VARIABLES
    elements,     \* DFDIR.elements: sequence of DFDElement records
    flows,        \* DFDIR.flows: sequence of DFDFlow records
    lastOp,       \* the last DFDIR / converter call and its outcome
    layoutNodes,  \* the node list handed to / returned by calculateLayout
    layoutConns,  \* the connection list handed to calculateLayout
    layoutCall,   \* the layout call made on layoutNodes (algorithm, grid, outcome)
    regexState,   \* lastIndex of every module-level /g regular expression
    lastCall,     \* the last PatternHelpers call: arguments and result
    lastExtract,  \* the last extract call: text, secondary source, result
    cells,        \* diagram.cells: the cell array handed to the renderer
    mode,         \* ValidationService.mode
    lastRender,   \* the last cell validation / auto-fix / draw call and its outcome
    jsonData,     \* the JSON document handed to the parser
    lastParse,    \* the last JSON import and its outcome
    wizard        \* the import wizard's data() and its pending async methods

vars == <<elements, flows, lastOp, layoutNodes, layoutConns, layoutCall,
          regexState, lastCall, lastExtract,
          cells, mode, lastRender, jsonData, lastParse, wizard>>

dfdirVars == <<elements, flows, lastOp>>
layoutVars == <<layoutNodes, layoutConns, layoutCall>>
patternVars == <<regexState, lastCall, lastExtract>>
renderVars == <<cells, mode, lastRender>>
parserVars == <<jsonData, lastParse>>
uiVars == <<renderVars, parserVars, wizard>>

(***************************************************************************)
(* Generic helpers                                                         *)
(***************************************************************************)
Range(s) == {s[i] : i \in DOMAIN s}

RECURSIVE Flatten(_)
Flatten(ss) == IF ss = <<>> THEN <<>> ELSE Head(ss) \o Flatten(Tail(ss))

\* Array.prototype.splice(index, 1) with a 1-based index
RemoveAt(s, i) == SubSeq(s, 1, i - 1) \o SubSeq(s, i + 1, Len(s))

\* Array.prototype.findIndex(x => x.id === id), 1-based; 0 when nothing matches
FindIndexById(s, id) ==
    IF \E i \in DOMAIN s : s[i].id = id
    THEN CHOOSE i \in DOMAIN s : s[i].id = id /\ \A j \in 1..(i - 1) : s[j].id # id
    ELSE 0

\* The indexes 1..Len(s) in order
Indexes(s) == [i \in DOMAIN s |-> i]

\* The member of a one-member set.  {e : x \in {v}} names the value v as x
\* in e, so that v is computed once however often e uses it.
TheOne(S) == CHOOSE x \in S : TRUE

Min(a, b) == IF a < b THEN a ELSE b
Max(a, b) == IF a > b THEN a ELSE b

(***************************************************************************)
(* DFDIR model (models/dfdir.js)                                           *)
(***************************************************************************)
MaxElements == 2
MaxFlows == 2

ElemIds == {"e1", "e2"}
FlowIds == {"f1", "f2"}

ElementTypes == {"actor", "process", "store"}

\* String.prototype.trim on the names of the model
Trim(s) == IF s = " " THEN "" ELSE s

DFDElement(id, name, type, confidence) ==
    [id |-> id, name |-> name, type |-> type, x |-> 100, y |-> 100,
     confidence |-> confidence]

DFDFlow(id, sourceId, targetId, confidence) ==
    [id |-> id, sourceId |-> sourceId, targetId |-> targetId,
     confidence |-> confidence]

\* The elements handed to addElement: well-formed ones, and ones with one
\* defect each (missing id, blank name, unknown type, confidence out of range).
ElementInputs ==
    {DFDElement("e1", "n", "actor", 90), DFDElement("e2", "n", "process", 90)}
    \cup {DFDElement("", "n", "process", 90),
          DFDElement("e1", " ", "process", 90),
          DFDElement("e2", "n", "bogus", 90),
          DFDElement("e1", "n", "store", 101)}

\* The flows handed to addFlow: flows between the element ids (self-loops
\* included), an endpoint id no element has, and one defect each.
FlowInputs ==
    {DFDFlow("f1", "e1", "e2", 80), DFDFlow("f1", "e1", "e1", 80),
     DFDFlow("f2", "e2", "e1", 80)}
    \cup {DFDFlow("f1", "ghost", "e1", 80),
          DFDFlow("f2", "e1", "ghost", 80),
          DFDFlow("", "e1", "e2", 80),
          DFDFlow("f1", "", "e2", 80),
          DFDFlow("f2", "e1", "e2", -1)}

IsNumber(v) == v \in Int

\* DFDElement.validate: the error strings, in the order they are pushed
ElementValidate(el) ==
    (IF el.id = "" THEN <<"Element missing ID">> ELSE <<>>)
    \o (IF el.name = "" \/ Trim(el.name) = "" THEN <<"Element missing name">> ELSE <<>>)
    \o (IF el.type \notin ElementTypes THEN <<"Invalid element type">> ELSE <<>>)
    \o (IF ~IsNumber(el.x) \/ ~IsNumber(el.y)
        THEN <<"Element position must be numeric">> ELSE <<>>)
    \o (IF ~IsNumber(el.confidence) \/ el.confidence < 0 \/ el.confidence > 100
        THEN <<"Confidence must be between 0 and 100">> ELSE <<>>)

\* A variant of DFDFlow.validate that forgets the self-loop check
FlowValidateNoLoopCheck(f) ==
    (IF f.id = "" THEN <<"Flow missing ID">> ELSE <<>>)
    \o (IF f.sourceId = "" THEN <<"Flow missing source ID">> ELSE <<>>)
    \o (IF f.targetId = "" THEN <<"Flow missing target ID">> ELSE <<>>)
    \o (IF ~IsNumber(f.confidence) \/ f.confidence < 0 \/ f.confidence > 100
        THEN <<"Confidence must be between 0 and 100">> ELSE <<>>)

\* DFDFlow.validate
FlowValidate(f) ==
    (IF f.id = "" THEN <<"Flow missing ID">> ELSE <<>>)
    \o (IF f.sourceId = "" THEN <<"Flow missing source ID">> ELSE <<>>)
    \o (IF f.targetId = "" THEN <<"Flow missing target ID">> ELSE <<>>)
    \o (IF f.sourceId = f.targetId
        THEN <<"Flow source and target cannot be the same">> ELSE <<>>)
    \o (IF ~IsNumber(f.confidence) \/ f.confidence < 0 \/ f.confidence > 100
        THEN <<"Confidence must be between 0 and 100">> ELSE <<>>)

\* DFDIR.getElementById(id) !== null
ElementExists(els, id) == \E i \in DOMAIN els : els[i].id = id

\* One message of DFDIR.validate.  index is the 0-based index the message
\* prints; id is the element id it names; errors are the joined sub-errors.
Message(kind, index, id, errors) ==
    [kind |-> kind, index |-> index, id |-> id, errors |-> errors]

ElementMessages(els) ==
    Flatten([i \in DOMAIN els |->
        IF ElementValidate(els[i]) # <<>>
        THEN <<Message("Element", i - 1, els[i].name, ElementValidate(els[i]))>>
        ELSE <<>>])

\* A variant of the flow loop of DFDIR.validate that forgets the target check
FlowMessagesNoTargetCheck(els, fls) ==
    Flatten([i \in DOMAIN fls |->
        (IF FlowValidate(fls[i]) # <<>>
         THEN <<Message("Flow", i - 1, "", FlowValidate(fls[i]))>> ELSE <<>>)
        \o (IF ~ElementExists(els, fls[i].sourceId)
            THEN <<Message("Source element not found", i - 1, fls[i].sourceId, <<>>)>>
            ELSE <<>>)])

FlowMessages(els, fls) ==
    Flatten([i \in DOMAIN fls |->
        (IF FlowValidate(fls[i]) # <<>>
         THEN <<Message("Flow", i - 1, "", FlowValidate(fls[i]))>> ELSE <<>>)
        \o (IF ~ElementExists(els, fls[i].sourceId)
            THEN <<Message("Source element not found", i - 1, fls[i].sourceId, <<>>)>>
            ELSE <<>>)
        \o (IF ~ElementExists(els, fls[i].targetId)
            THEN <<Message("Target element not found", i - 1, fls[i].targetId, <<>>)>>
            ELSE <<>>)])

\* DFDIR.validate: { valid, errors }
DFDIRValidate(els, fls) ==
    LET errors == ElementMessages(els) \o FlowMessages(els, fls)
                  \o (IF Len(els) = 0
                      THEN <<Message("DFDIR contains no elements", 0, "", <<>>)>>
                      ELSE <<>>)
    IN [valid |-> errors = <<>>, errors |-> errors]

NoOp == [op |-> "none", id |-> "", threw |-> FALSE, ret |-> FALSE, msgs |-> <<>>]

Outcome(op, id, threw, ret, msgs) ==
    [op |-> op, id |-> id, threw |-> threw, ret |-> ret, msgs |-> msgs]

\* A variant of addElement without the duplicate-id check
AddElementNoDupCheck(el) ==
    /\ Len(elements) < MaxElements
    /\ elements' = Append(elements, el)
    /\ lastOp' = Outcome("addElement", el.id, FALSE, FALSE, <<>>)
    /\ UNCHANGED flows

\* DFDIR.addElement
AddElement(el) ==
    IF \E i \in DOMAIN elements : elements[i].id = el.id
       THEN /\ lastOp' = Outcome("addElement", el.id, TRUE, FALSE, <<>>)
            /\ UNCHANGED <<elements, flows>>
       ELSE /\ Len(elements) < MaxElements
            /\ elements' = Append(elements, el)
            /\ lastOp' = Outcome("addElement", el.id, FALSE, FALSE, <<>>)
            /\ UNCHANGED flows

\* DFDIR.addFlow
AddFlow(f) ==
    IF \E i \in DOMAIN flows : flows[i].id = f.id
       THEN /\ lastOp' = Outcome("addFlow", f.id, TRUE, FALSE, <<>>)
            /\ UNCHANGED <<elements, flows>>
       ELSE /\ Len(flows) < MaxFlows
            /\ flows' = Append(flows, f)
            /\ lastOp' = Outcome("addFlow", f.id, FALSE, FALSE, <<>>)
            /\ UNCHANGED elements

\* A variant of removeElement that forgets flows whose target is the element
RemoveElementSourceOnly(id) ==
    LET index == FindIndexById(elements, id)
    IN IF index = 0
       THEN /\ lastOp' = Outcome("removeElement", id, FALSE, FALSE, <<>>)
            /\ UNCHANGED <<elements, flows>>
       ELSE /\ flows' = SelectSeq(flows, LAMBDA f : f.sourceId # id)
            /\ elements' = RemoveAt(elements, index)
            /\ lastOp' = Outcome("removeElement", id, FALSE, TRUE, <<>>)

\* DFDIR.removeElement
RemoveElement(id) ==
    LET index == FindIndexById(elements, id)
    IN IF index = 0
       THEN /\ lastOp' = Outcome("removeElement", id, FALSE, FALSE, <<>>)
            /\ UNCHANGED <<elements, flows>>
       ELSE /\ flows' = SelectSeq(flows, LAMBDA f : f.sourceId # id /\ f.targetId # id)
            /\ elements' = RemoveAt(elements, index)
            /\ lastOp' = Outcome("removeElement", id, FALSE, TRUE, <<>>)

\* DFDIR.removeFlow
RemoveFlow(id) ==
    LET index == FindIndexById(flows, id)
    IN IF index = 0
       THEN /\ lastOp' = Outcome("removeFlow", id, FALSE, FALSE, <<>>)
            /\ UNCHANGED <<elements, flows>>
       ELSE /\ flows' = RemoveAt(flows, index)
            /\ lastOp' = Outcome("removeFlow", id, FALSE, TRUE, <<>>)
            /\ UNCHANGED elements

(***************************************************************************)
(* Converter gate (converter/t2tConverter.js, validationService)           *)
(***************************************************************************)
\* validationResult.fromStringErrors: one error object per string, in order
fromStringErrors(errorStrings) ==
    [valid |-> errorStrings = <<>>, errors |-> errorStrings]

\* ValidationService.validateDFDIR on a DFDIR instance: merge of the built-in
\* validation's errors into a fresh, valid result
validateDFDIR(els, fls) ==
    LET dfdirValidation == DFDIRValidate(els, fls)
        merged == IF ~dfdirValidation.valid
                  THEN fromStringErrors(dfdirValidation.errors).errors
                  ELSE <<>>
    IN [valid |-> merged = <<>>, errors |-> merged]

\* A fail-fast variant of the error aggregation of convert
ConvertErrorMessagesFirstOnly(errors) == SubSeq(errors, 1, 1)

\* convert: dfdirResult.errors.map(e => e.message).join(', ')
ConvertErrorMessages(errors) == errors

\* T2TConverter.convert: throws one Error carrying the joined messages, or
\* returns the threat model (ret = TRUE)
Convert ==
    LET dfdirResult == validateDFDIR(elements, flows)
    IN /\ IF ~dfdirResult.valid
          THEN lastOp' = Outcome("convert", "", TRUE, FALSE,
                                 ConvertErrorMessages(dfdirResult.errors))
          ELSE lastOp' = Outcome("convert", "", FALSE, TRUE, <<>>)
       /\ UNCHANGED <<elements, flows>>

(***************************************************************************)
(* Layout engine (layout/t2tLayout.js)                                     *)
(***************************************************************************)
MaxLayoutNodes == 3
MaxLayoutConns == 2

gridSnap == 100
canvasWidth == 2000
canvasHeight == 1500
tierSpacing == 400
nodeSpacing == 300
levelCap == 20

\* Node ids are the integers 1..n; 0 is an id no node has.
LayoutNode(id, type) == [id |-> id, type |-> type, x |-> -1, y |-> -1]

LayoutTypes == {"actor", "process", "store", "unknown"}

\* Node lists of n nodes with pairwise distinct ids (the data model's
\* identity), of the given types, not yet positioned.
NodeListsOver(types) ==
    UNION {{[i \in 1..n |-> LayoutNode(i, ty[i])] : ty \in [1..n -> types]}
           : n \in 0..MaxLayoutNodes}

LayoutNodeLists == NodeListsOver(LayoutTypes)

Conn(s, t) == [sourceId |-> s, targetId |-> t]

\* The connection lists over n nodes: any endpoints (self-loops, repeated
\* pairs and targets that are no node included), in any order.
LayoutConnLists(n) ==
    UNION {[1..m -> {Conn(s, t) : s \in 1..n, t \in 0..n}] : m \in 0..MaxLayoutConns}

\* The arguments of calculateLayout: node lists of every mix of types without
\* connections, and process-only node lists with every connection list
LayoutInputs ==
    {<<ns, <<>>>> : ns \in LayoutNodeLists}
    \cup UNION {{<<ns, conns>> : conns \in LayoutConnLists(Len(ns))}
                : ns \in NodeListsOver({"process"})}

\* A variant of snapToGrid that returns the value unrounded (num / den whole)
SnapToGridRatioIdentity(num, den) == num \div den

\* snapToGrid(num / den): Math.round(value / gridSnap) * gridSnap, where
\* Math.round rounds halves up
SnapToGridRatio(num, den) ==
    ((2 * num + den * gridSnap) \div (2 * den * gridSnap)) * gridSnap

snapToGrid(value) == SnapToGridRatio(value, 1)

\* positionTier on the nodes ns, for the tier given as a sequence of indexes
\* into ns (a node listed twice is assigned twice; the later slot stays)
positionTier(ns, tier, startX, y, spacing) ==
    IF Len(tier) = 0 THEN ns
    ELSE LET totalWidth == (Len(tier) - 1) * spacing
             \* twice Math.max(startX, (canvasWidth - totalWidth) / 2)
             currentX2 == Max(2 * startX, canvasWidth - totalWidth)
             slot(k) == CHOOSE j \in DOMAIN tier :
                            tier[j] = k /\ \A j2 \in DOMAIN tier : tier[j2] = k => j2 <= j
         IN [k \in DOMAIN ns |->
                IF \E j \in DOMAIN tier : tier[j] = k
                THEN [ns[k] EXCEPT
                        !.x = SnapToGridRatio(currentX2 + 2 * (slot(k) - 1) * spacing, 2),
                        !.y = snapToGrid(y)]
                ELSE ns[k]]

\* The tier a node type falls in: unknown types default to process
TierOf(type) == IF type \in {"actor", "process", "store"} THEN type ELSE "process"

calculateTieredLayout(ns) ==
    LET actors == SelectSeq(Indexes(ns), LAMBDA i : TierOf(ns[i].type) = "actor")
        processes == SelectSeq(Indexes(ns), LAMBDA i : TierOf(ns[i].type) = "process")
        stores == SelectSeq(Indexes(ns), LAMBDA i : TierOf(ns[i].type) = "store")
    IN TheOne({positionTier(p, stores, 100, 100 + 2 * tierSpacing, nodeSpacing)
               : p \in {positionTier(a, processes, 100, 100 + tierSpacing, nodeSpacing)
               : a \in {positionTier(ns, actors, 100, 100, nodeSpacing)}}})

\* 1000 * cos(2 pi index / count) and 1000 * sin(2 pi index / count), to the
\* nearest unit, for the circle sizes of the model
CosMilli(index, count) ==
    CASE count = 1 -> 1000
      [] count = 2 -> <<1000, -1000>>[index + 1]
      [] count = 3 -> <<1000, -500, -500>>[index + 1]
      [] count = 4 -> <<1000, 0, -1000, 0>>[index + 1]
      [] count = 5 -> <<1000, 309, -809, -809, 309>>[index + 1]
      [] count = 6 -> <<1000, 500, -500, -1000, -500, 500>>[index + 1]

SinMilli(index, count) ==
    CASE count = 1 -> 0
      [] count = 2 -> <<0, 0>>[index + 1]
      [] count = 3 -> <<0, 866, -866>>[index + 1]
      [] count = 4 -> <<0, 1000, 0, -1000>>[index + 1]
      [] count = 5 -> <<0, 951, 588, -588, -951>>[index + 1]
      [] count = 6 -> <<0, 866, 866, 0, -866, -866>>[index + 1]

calculateRadialLayout(ns) ==
    IF Len(ns) = 0 THEN ns
    ELSE LET centerX2 == canvasWidth        \* twice centerX
             centerY2 == canvasHeight       \* twice centerY
             radius2 == Min(centerX2, centerY2) - 400
         IN [k \in DOMAIN ns |->
                [ns[k] EXCEPT
                   !.x = SnapToGridRatio(1000 * centerX2
                                         + radius2 * CosMilli(k - 1, Len(ns)), 2000),
                   !.y = SnapToGridRatio(1000 * centerY2
                                         + radius2 * SinMilli(k - 1, Len(ns)), 2000)]]

\* nodeMap.get(id): the index of the node with that id, 0 when there is none
\* (new Map keeps the last node of an id)
NodeIndex(ns, id) ==
    IF \E i \in DOMAIN ns : ns[i].id = id
    THEN CHOOSE i \in DOMAIN ns :
            ns[i].id = id /\ \A j \in DOMAIN ns : ns[j].id = id => j <= i
    ELSE 0

\* The next BFS level: for every node of the current level, in order, the
\* targets of its outgoing connections, in connection order, that are nodes
\* and are not visited yet
NextLevel(ns, conns, currentLevel, visited) ==
    Flatten([c \in DOMAIN currentLevel |->
        Flatten([e \in DOMAIN conns |->
            IF /\ conns[e].sourceId = ns[currentLevel[c]].id
               /\ NodeIndex(ns, conns[e].targetId) # 0
               /\ conns[e].targetId \notin visited
            THEN <<NodeIndex(ns, conns[e].targetId)>>
            ELSE <<>>])])

\* One pass of the while loop of buildHierarchyLevels on its variables L
\* (levels, visited, currentLevel); levels are sequences of indexes
HierarchyStep(ns, conns, L) ==
    LET levelNodes == SelectSeq(L.currentLevel, LAMBDA i : ns[i].id \notin L.visited)
        visited2 == L.visited \cup {ns[levelNodes[j]].id : j \in DOMAIN levelNodes}
    IN [levels |-> IF Len(levelNodes) > 0 THEN Append(L.levels, levelNodes) ELSE L.levels,
        visited |-> visited2,
        currentLevel |-> NextLevel(ns, conns, L.currentLevel, visited2)]

RECURSIVE HierarchyLoop(_, _, _)
\* The while loop of buildHierarchyLevels: it ends when the current level is
\* empty or, after a pass, when levels.length > 20
HierarchyLoop(ns, conns, L) ==
    IF Len(L.currentLevel) = 0 THEN L
    ELSE TheOne({IF Len(next.levels) > levelCap THEN next
                 ELSE HierarchyLoop(ns, conns, next)
                 : next \in {HierarchyStep(ns, conns, L)}})

buildHierarchyLevels(ns, conns, rootNodes) ==
    TheOne({LET unvisited == SelectSeq(Indexes(ns), LAMBDA i : ns[i].id \notin loop.visited)
            IN IF Len(unvisited) > 0 THEN Append(loop.levels, unvisited) ELSE loop.levels
            : loop \in {HierarchyLoop(ns, conns,
                            [levels |-> <<>>, visited |-> {}, currentLevel |-> rootNodes])}})

RECURSIVE PositionLevels(_, _, _)
PositionLevels(ns, levels, currentY) ==
    IF levels = <<>> THEN ns
    ELSE TheOne({PositionLevels(next, rest, currentY + tierSpacing)
                 : next \in {positionTier(ns, Head(levels), 100, currentY, nodeSpacing)},
                   rest \in {Tail(levels)}})

\* A variant of the root filter that keeps every node
RootNodesAll(ns, conns) == Indexes(ns)

RootNodes(ns, conns) ==
    LET hasIncoming == {conns[e].targetId : e \in DOMAIN conns}
    IN SelectSeq(Indexes(ns), LAMBDA i : ns[i].id \notin hasIncoming)

calculateHierarchicalLayout(ns, conns) ==
    TheOne({IF Len(rootNodes) = 0
            THEN calculateTieredLayout(ns)
            ELSE TheOne({PositionLevels(ns, levels, 100)
                         : levels \in {buildHierarchyLevels(ns, conns, rootNodes)}})
            : rootNodes \in {RootNodes(ns, conns)}})

LayoutAlgorithms == {"tiered", "radial", "hierarchical"}

NoLayout == [layoutType |-> "none", threw |-> FALSE]

\* T2TLayout.calculateLayout: the switch over layoutType; any other name throws
calculateLayout(ns, conns, layoutType) ==
    /\ layoutConns' = conns
    /\ CASE layoutType = "tiered" ->
              /\ layoutNodes' = calculateTieredLayout(ns)
              /\ layoutCall' = [layoutType |-> layoutType, threw |-> FALSE]
         [] layoutType = "radial" ->
              /\ layoutNodes' = calculateRadialLayout(ns)
              /\ layoutCall' = [layoutType |-> layoutType, threw |-> FALSE]
         [] layoutType = "hierarchical" ->
              /\ layoutNodes' = calculateHierarchicalLayout(ns, conns)
              /\ layoutCall' = [layoutType |-> layoutType, threw |-> FALSE]
         [] OTHER ->
              /\ layoutNodes' = ns
              /\ layoutCall' = [layoutType |-> layoutType, threw |-> TRUE]


(***************************************************************************)
(* Text.  A document is a sequence of segments (table rows, inline         *)
(* mentions, connection phrases); a segment is a sequence of atoms, the    *)
(* literal pieces of text below, each with its length in characters.  All  *)
(* offsets are character offsets, as RegExp.lastIndex and String.indexOf   *)
(* count them.                                                             *)
(***************************************************************************)
MaxSegments == 2

Hosts == {"Kali-01", "Router-01"}

HostOS(h) == IF h = "Kali-01" THEN "Kali Linux" ELSE "VyOS"
HostIP(h) == IF h = "Kali-01" THEN "192.168.100.10" ELSE "192.168.100.1"
HostRole(h) == IF h = "Kali-01" THEN "Attacker" ELSE "Router"
HostServices(h) == IF h = "Kali-01" THEN "ssh, metasploit" ELSE "ssh"

Segment(k, a, b) == [k |-> k, a |-> a, b |-> b]

\* "| Kali-01 | Kali Linux | x64 | 192.168.100.10 | Attacker | ssh, metasploit |",
\* "Kali-01 (192.168.100.10)", "Kali-01 -> Router-01", "pivot through Router-01"
Segments ==
    {Segment("row", h, "") : h \in Hosts}
    \cup {Segment("inline", h, "") : h \in Hosts}
    \cup {Segment("arrow", "Kali-01", "Router-01"), Segment("pivot", "", "Router-01")}

Texts == UNION {[1..n -> Segments] : n \in 1..MaxSegments}

SegAtoms(seg) ==
    CASE seg.k = "row" ->
            <<"| ", seg.a, " | ", HostOS(seg.a), " | ", "x64", " | ", HostIP(seg.a),
              " | ", HostRole(seg.a), " | ", HostServices(seg.a), " |">>
      [] seg.k = "inline" -> <<seg.a, " (", HostIP(seg.a), ")">>
      [] seg.k = "arrow" -> <<seg.a, " -> ", seg.b>>
      [] seg.k = "pivot" -> <<"pivot through ", seg.b>>
      [] seg.k = "pivots" -> <<seg.a, " pivots through ", seg.b>>

AtomLen(a) ==
    CASE a = "" -> 0
      [] a \in {" ", ")", "\n"} -> 1
      [] a \in {"| ", " |", " ("} -> 2
      [] a \in {" | ", "x64", "ssh"} -> 3
      [] a \in {" -> ", "VyOS", "Kali"} -> 4
      [] a \in {"Router", "server", "router"} -> 6
      [] a = "Kali-01" -> 7
      [] a \in {"Attacker", "attacker"} -> 8
      [] a = "Router-01" -> 9
      [] a = "Kali Linux" -> 10
      [] a = "192.168.100.1" -> 13
      [] a \in {"192.168.100.10", "pivot through "} -> 14
      [] a = "ssh, metasploit" -> 15
      [] a = " pivots through " -> 16

\* A located atom: the atom, the offset of its first character, and the
\* segment (1-based) and place in the segment it came from (0: none)
Located(a, at, seg, pos) == [a |-> a, at |-> at, seg |-> seg, pos |-> pos]

RECURSIVE LocateSeg(_, _, _, _)
LocateSeg(atoms, i, at, seg) ==
    IF i > Len(atoms) THEN <<>>
    ELSE <<Located(atoms[i], at, seg, i)>>
         \o LocateSeg(atoms, i + 1, at + AtomLen(atoms[i]), seg)

RECURSIVE SumLen(_)
SumLen(atoms) == IF atoms = <<>> THEN 0 ELSE AtomLen(Head(atoms)) + SumLen(Tail(atoms))

RECURSIVE LocateText(_, _, _)
\* The located atoms of a text: its segments, one per line
LocateText(text, i, at) ==
    IF i > Len(text) THEN <<>>
    ELSE LocateSeg(SegAtoms(text[i]), 1, at, i)
         \o LocateText(text, i + 1, at + SumLen(SegAtoms(text[i])) + 1)

\* A text as the code sees it: its length and its located atoms
TextOf(text) ==
    LET atoms == LocateText(text, 1, 0)
    IN [len |-> IF atoms = <<>> THEN 0
                ELSE atoms[Len(atoms)].at + AtomLen(atoms[Len(atoms)].a),
        atoms |-> atoms]

EmptyText == [len |-> 0, atoms |-> <<>>]

\* A string built from one atom (a name, a role, a table cell)
AtomText(a) == [len |-> AtomLen(a), atoms |-> <<Located(a, 0, 0, 0)>>]

(***************************************************************************)
(* Pattern library (parser/t2tPatterns.js): the module-level regular       *)
(* expressions, by what they match in the atoms of the model               *)
(***************************************************************************)
ServiceNames == <<"web", "database", "ssh", "rdp", "smb", "dns", "ldap",
                  "metasploit", "burpsuite">>
ProtocolNames == <<"https", "http", "ssh", "rdp", "mysql", "postgresql",
                   "smb", "ldap", "dns">>

\* The regular expressions with the g flag that are exercised with test():
\* rolePatterns.attacker / .database, servicePatterns.*, protocolPatterns.*
Rx(group, name) == <<group, name>>
StatefulRegexes ==
    {Rx("role", "attacker"), Rx("role", "database")}
    \cup {Rx("service", ServiceNames[i]) : i \in DOMAIN ServiceNames}
    \cup {Rx("protocol", ProtocolNames[i]) : i \in DOMAIN ProtocolNames}

\* The matches of a regular expression inside one atom: <<offset, length>>
AtomHits(rx, a) ==
    CASE rx = Rx("role", "attacker") /\ a \in {"Kali-01", "Kali Linux", "Kali"} -> {<<0, 4>>}
      [] rx = Rx("role", "attacker") /\ a \in {"Attacker", "attacker"} -> {<<0, 8>>}
      [] rx = Rx("service", "ssh") /\ a \in {"ssh", "ssh, metasploit"} -> {<<0, 3>>}
      [] rx = Rx("protocol", "ssh") /\ a \in {"ssh", "ssh, metasploit"} -> {<<0, 3>>}
      [] rx = Rx("service", "metasploit") /\ a = "ssh, metasploit" -> {<<5, 10>>}
      [] OTHER -> {}

\* The matches of rx in a string: <<start, end>> offsets
Hits(rx, str) ==
    UNION {{<<str.atoms[i].at + h[1], str.atoms[i].at + h[1] + h[2]>> :
                h \in AtomHits(rx, str.atoms[i].a)} : i \in DOMAIN str.atoms}

\* RegExp.prototype.test of a /g expression whose lastIndex is lastIndex: the
\* first match starting at or after lastIndex; lastIndex becomes its end, or
\* 0 when there is none
RegexTest(rx, str, lastIndex) ==
    TheOne({IF cands = {} THEN [ok |-> FALSE, lastIndex |-> 0]
            ELSE LET first == CHOOSE h \in cands : \A g \in cands : h[1] <= g[1]
                 IN [ok |-> TRUE, lastIndex |-> first[2]]
            : cands \in {{h \in Hits(rx, str) : h[1] >= lastIndex}}})

\* Concatenation of strings
RECURSIVE Shift(_, _, _)
Shift(atoms, i, by) ==
    IF i > Len(atoms) THEN <<>>
    ELSE <<[atoms[i] EXCEPT !.at = @ + by]>> \o Shift(atoms, i + 1, by)

Concat(s, t) == [len |-> s.len + t.len, atoms |-> s.atoms \o Shift(t.atoms, 1, s.len)]

\* String.prototype.substring(start, end): the atoms that lie wholly inside
\* (a cut atom keeps none of its matches)
Substring(str, start, end) ==
    LET lo == Max(0, Min(start, str.len))
        hi == Max(lo, Min(end, str.len))
        kept == SelectSeq(str.atoms, LAMBDA p : p.at >= lo /\ p.at + AtomLen(p.a) <= hi)
    IN [len |-> hi - lo, atoms |-> Shift(kept, 1, 0 - lo)]

\* Whether the keyword occurs in the atom (at its start), ignoring case
Occurs(keyword, a) ==
    \/ keyword = a
    \/ keyword = "Kali" /\ a \in {"Kali-01", "Kali Linux"}
    \/ keyword = "Router" /\ a = "Router-01"

\* String.prototype.indexOf(keyword) on the lower-cased text; -1 when absent
IndexOf(str, keyword) ==
    LET found == {i \in DOMAIN str.atoms : Occurs(keyword, str.atoms[i].a)}
    IN IF found = {} THEN -1
       ELSE str.atoms[CHOOSE i \in found : \A j \in found : i <= j].at

\* indexOf of `${a} ${b}`: a, one space, b
IndexOfPair(str, a, b) ==
    LET found == {i \in DOMAIN str.atoms :
                     /\ i + 2 <= Len(str.atoms)
                     /\ str.atoms[i].a = a
                     /\ str.atoms[i + 1].a = " "
                     /\ str.atoms[i + 2].a = b}
    IN IF found = {} THEN -1
       ELSE str.atoms[CHOOSE i \in found : \A j \in found : i <= j].at

windowSize == 200

\* PatternHelpers.getContextWindow, given the index of the keyword
ContextWindow(str, index, keywordLength) ==
    IF index = -1 THEN EmptyText
    ELSE Substring(str, Max(0, index - windowSize),
                   Min(str.len, index + keywordLength + windowSize))

getContextWindow(str, keyword) ==
    ContextWindow(str, IndexOf(str, keyword), AtomLen(keyword))

\* PatternHelpers.isValidIPv4
isValidIPv4(ip) == ip \in {"192.168.100.10", "192.168.100.1", "10.0.0.5"}

\* classifyNodeType on the lower-cased `${name} ${role} ${context}`
ClassifyCombined(combined, rs) ==
    LET attacker == RegexTest(Rx("role", "attacker"), combined, rs[Rx("role", "attacker")])
        rs1 == [rs EXCEPT ![Rx("role", "attacker")] = attacker.lastIndex]
        database == RegexTest(Rx("role", "database"), combined, rs[Rx("role", "database")])
        rs2 == [rs1 EXCEPT ![Rx("role", "database")] = database.lastIndex]
    IN IF attacker.ok THEN [type |-> "actor", rs |-> rs1]
       ELSE IF database.ok THEN [type |-> "store", rs |-> rs2]
       ELSE IF Hits(Rx("literal", "storage"), combined) # {}
            THEN [type |-> "store", rs |-> rs2]
            ELSE [type |-> "process", rs |-> rs2]

\* PatternHelpers.classifyNodeType: the type, and the regex state it leaves
classifyNodeType(name, role, context, rs) ==
    TheOne({ClassifyCombined(combined, rs0) :
               combined \in {Concat(AtomText(name),
                               Concat(AtomText(" "),
                                 Concat(AtomText(role), Concat(AtomText(" "), context))))},
               rs0 \in {rs}})

\* PatternHelpers.extractServices: every service pattern is tested, in order;
\* the port-<n> tokens come from a fresh expression (no atom holds one)
extractServices(servicesText, rs) ==
    LET t(i) == RegexTest(Rx("service", ServiceNames[i]), servicesText,
                          rs[Rx("service", ServiceNames[i])])
    IN [services |-> {ServiceNames[i] : i \in {j \in DOMAIN ServiceNames : t(j).ok}},
        rs |-> [rx \in StatefulRegexes |->
                   IF rx[1] = "service"
                   THEN RegexTest(rx, servicesText, rs[rx]).lastIndex
                   ELSE rs[rx]]]

RECURSIVE DetectFrom(_, _, _)
\* The loop of detectProtocol from the i-th protocol pattern on: it returns
\* at the first pattern that matches and leaves the later ones untested
DetectFrom(i, context, rs) ==
    IF i > Len(ProtocolNames) THEN [protocol |-> "TCP", rs |-> rs]
    ELSE TheOne({IF t.ok
                 THEN [protocol |-> ProtocolNames[i],
                       rs |-> [rs EXCEPT ![Rx("protocol", ProtocolNames[i])] = t.lastIndex]]
                 ELSE DetectFrom(i + 1, context,
                          [rs EXCEPT ![Rx("protocol", ProtocolNames[i])] = t.lastIndex])
                 : t \in {RegexTest(Rx("protocol", ProtocolNames[i]), context,
                                    rs[Rx("protocol", ProtocolNames[i])])}})

\* PatternHelpers.detectProtocol (the name is upper-cased by the code)
detectProtocol(context, rs) ==
    TheOne({DetectFrom(1, c, rs0) : c \in {context}, rs0 \in {rs}})

\* PatternHelpers.isEncryptedProtocol
isEncryptedProtocol(protocol) == protocol \in {"https", "ssh"}

ZeroRegexState == [rx \in StatefulRegexes |-> 0]

(***************************************************************************)
(* Entity extractor (parser/entityExtractor.js)                            *)
(*                                                                         *)
(* Confidences are held in twentieths (Conf(95) is 95), so that the        *)
(* factors 0.9 and 0.8 and the averages of the code are exact.  uuidv4()   *)
(* is modelled by the node's name: one fresh id per key of the node map.   *)
(* A missing value (null ipAddress, absent metadata.role) is "".           *)
(***************************************************************************)
Conf(c) == 20 * c

Node(name, id, ipAddress, type, services, role, extractedFrom, confidence, source) ==
    [name |-> name, id |-> id, ipAddress |-> ipAddress, type |-> type,
     services |-> services, role |-> role, extractedFrom |-> extractedFrom,
     visionConfirmed |-> FALSE, confidence |-> confidence, source |-> source]

Connection(sourceId, targetId, protocol, isEncrypted, confidence, source) ==
    [sourceId |-> sourceId, targetId |-> targetId, protocol |-> protocol,
     isEncrypted |-> isEncrypted, confidence |-> confidence, source |-> source]

\* this.nodes.get(name): the index of the node keyed by name, 0 when absent
NodeAt(nodes, name) ==
    IF \E i \in DOMAIN nodes : nodes[i].name = name
    THEN CHOOSE i \in DOMAIN nodes : nodes[i].name = name
    ELSE 0

\* EntityExtractor.addOrUpdateNode
addOrUpdateNode(nodes, nodeData) ==
    LET i == NodeAt(nodes, nodeData.name)
    IN IF i # 0
       THEN [nodes EXCEPT ![i] =
               [@ EXCEPT
                  !.ipAddress = IF nodeData.ipAddress # "" THEN nodeData.ipAddress ELSE @,
                  !.services = @ \cup nodeData.services,
                  !.role = IF nodeData.role # "" THEN nodeData.role ELSE @,
                  !.extractedFrom = IF nodeData.extractedFrom # ""
                                    THEN nodeData.extractedFrom ELSE @,
                  !.confidence = Max(@, nodeData.confidence)]]
       ELSE Append(nodes, nodeData)

\* The hosts of the table rows / inline mentions of a text, in text order
\* (the matches of nodePatterns.tableRow and nodePatterns.inline)
SegmentHosts(text, kind) ==
    Flatten([i \in DOMAIN text |-> IF text[i].k = kind THEN <<text[i].a>> ELSE <<>>])

\* extractFromTableRows: the body of the loop for one row
TableStep(T, hostname, S) ==
    TheOne({TheOne({[S EXCEPT
                       !.nodes = addOrUpdateNode(S.nodes,
                                    Node(hostname, hostname, HostIP(hostname), cl.type,
                                         sv.services, HostRole(hostname), "table",
                                         Conf(95), "text")),
                       !.rs = cl.rs]
                    : cl \in {classifyNodeType(hostname, HostRole(hostname),
                                               getContextWindow(T, hostname), sv.rs)}})
            : sv \in {extractServices(AtomText(HostServices(hostname)), S.rs)}})

RECURSIVE TableLoop(_, _, _, _)
\* extractFromTableRows: the loop over the rows, from the i-th on
TableLoop(T, rows, i, S) ==
    IF i > Len(rows) THEN S
    ELSE TheOne({TableLoop(T, rows, i + 1, next)
                 : next \in {TableStep(T, h, S) : h \in {rows[i]}}})

\* A variant of the precedence test of extractFromInlineFormat that never skips
SkipInlineNever(nodes, nodeName) == FALSE

\* extractFromInlineFormat: "skip if already exists from table"
SkipInline(nodes, nodeName) ==
    /\ NodeAt(nodes, nodeName) # 0
    /\ nodes[NodeAt(nodes, nodeName)].extractedFrom = "table"

\* extractFromInlineFormat: the body of the loop for one mention
InlineStep(T, nodeName, S) ==
    IF SkipInline(S.nodes, nodeName) THEN S
    ELSE TheOne({[S EXCEPT
                    !.nodes = addOrUpdateNode(S.nodes,
                                 Node(nodeName, nodeName, HostIP(nodeName), cl.type, {},
                                      "", "inline", Conf(85), "text")),
                    !.rs = cl.rs]
                 : cl \in {classifyNodeType(nodeName, "", getContextWindow(T, nodeName),
                                            S.rs)}})

RECURSIVE InlineLoop(_, _, _, _)
\* extractFromInlineFormat: the loop over the mentions, from the i-th on
InlineLoop(T, mentions, i, S) ==
    IF i > Len(mentions) THEN S
    ELSE TheOne({InlineLoop(T, mentions, i + 1, next)
                 : next \in {InlineStep(T, h, S) : h \in {mentions[i]}}})

\* The entries of OS_PATTERNS that match an atom of the model, in their order
OsPatterns == <<[hint |-> "kali", role |-> "attacker"],
                [hint |-> "vyos", role |-> "router"]>>

\* match[1] of an OS pattern inside an atom; "" when it does not match
OsCapture(hint, a) ==
    CASE hint = "kali" /\ a = "Kali-01" -> "Kali"
      [] hint = "kali" /\ a = "Kali Linux" -> "Kali Linux"
      [] hint = "vyos" /\ a = "VyOS" -> "VyOS"
      [] OTHER -> ""

\* match[0] of nodePatterns.systemNames inside an atom; "" when none
LegacyCapture(a) ==
    CASE a \in {"Kali-01", "Router-01", "VyOS", "Router"} -> a
      [] a = "Kali Linux" -> "Kali"
      [] OTHER -> ""

\* String.prototype.toLowerCase on the names of the model
Lower(name) ==
    CASE name = "Kali" -> "kali"
      [] name = "Kali Linux" -> "kali linux"
      [] name = "Kali-01" -> "kali-01"
      [] name = "VyOS" -> "vyos"
      [] name = "Router" -> "router"
      [] name = "Router-01" -> "router-01"
      [] OTHER -> name

\* The matches of the OS patterns: pattern by pattern, each in text order
OsMatches(T) ==
    Flatten([p \in DOMAIN OsPatterns |->
        Flatten([i \in DOMAIN T.atoms |->
            IF OsCapture(OsPatterns[p].hint, T.atoms[i].a) # ""
            THEN <<[name |-> OsCapture(OsPatterns[p].hint, T.atoms[i].a),
                    role |-> OsPatterns[p].role, from |-> "osPattern",
                    confidence |-> Conf(75)]>>
            ELSE <<>>])])

\* The matches of the legacy systemNames pattern, in text order
LegacyMatches(T) ==
    Flatten([i \in DOMAIN T.atoms |->
        IF LegacyCapture(T.atoms[i].a) # ""
        THEN <<[name |-> LegacyCapture(T.atoms[i].a), role |-> "",
                from |-> "systemName", confidence |-> Conf(65)]>>
        ELSE <<>>])

\* extractFromSystemNames: the body of either loop for one match m; S.seen is
\* seenNames
SystemStep(T, m, S) ==
    IF Lower(m.name) \in S.seen THEN S
    ELSE IF NodeAt(S.nodes, m.name) # 0
    THEN [S EXCEPT !.seen = @ \cup {Lower(m.name)}]
    ELSE TheOne({[S EXCEPT
                    !.seen = @ \cup {Lower(m.name)},
                    !.nodes = addOrUpdateNode(S.nodes,
                                 Node(m.name, m.name, "", cl.type, {}, "", m.from,
                                      m.confidence, "text")),
                    !.rs = cl.rs]
                 : cl \in {classifyNodeType(m.name, m.role, getContextWindow(T, m.name),
                                            S.rs)}})

RECURSIVE SystemLoop(_, _, _, _)
\* extractFromSystemNames: the OS-pattern loop followed by the legacy loop
\* (no atom of the model matches an instrumentation pattern)
SystemLoop(T, matches, i, S) ==
    IF i > Len(matches) THEN S
    ELSE TheOne({SystemLoop(T, matches, i + 1, next)
                 : next \in {SystemStep(T, m, S) : m \in {matches[i]}}})

\* extractNodesFromText
extractNodesFromText(T, text, S) ==
    TheOne({SystemLoop(T, matches, 1, inline)
            : inline \in {InlineLoop(T, SegmentHosts(text, "inline"), 1, table)
                          : table \in {TableLoop(T, SegmentHosts(text, "row"), 1, S)}},
              matches \in {OsMatches(T) \o LegacyMatches(T)}})

\* The index of connectionPatterns that a segment kind matches
ConnectionPatternOf(kind) ==
    CASE kind = "arrow" -> 0
      [] kind = "pivot" -> 3
      [] OTHER -> -1

\* The matches of connectionPatterns: pattern by pattern, each in text order;
\* index is match.index, the offset of the phrase
ConnectionMatches(T, text) ==
    Flatten([p \in 1..6 |->
        Flatten([i \in DOMAIN text |->
            IF ConnectionPatternOf(text[i].k) = p - 1
            THEN <<[pattern |-> p - 1, m1 |-> text[i].a, m2 |-> text[i].b,
                    index |-> (CHOOSE q \in Range(T.atoms) : q.seg = i /\ q.pos = 1).at]>>
            ELSE <<>>])])

\* String.prototype.includes(nodeName)
Includes(str, nodeName) == \E i \in DOMAIN str.atoms : Occurs(nodeName, str.atoms[i].a)

\* EntityExtractor.findNearestNodeName: the last of nodeNames the text
\* includes ("" for null)
findNearestNodeName(str, nodeNames) ==
    LET found == {i \in DOMAIN nodeNames : Includes(str, nodeNames[i])}
    IN IF found = {} THEN ""
       ELSE nodeNames[CHOOSE i \in found : \A j \in found : j <= i]

\* extractConnectionsFromText: the body of the loop for one match m, once
\* sourceName and targetName are determined
ConnectionStep(T, sourceName, targetName, S) ==
    LET src == NodeAt(S.nodes, sourceName)
        tgt == NodeAt(S.nodes, targetName)
        exists == \E c \in DOMAIN S.conns :
                     /\ S.conns[c].sourceId = S.nodes[src].id
                     /\ S.conns[c].targetId = S.nodes[tgt].id
    IN IF sourceName = "" \/ targetName = "" \/ src = 0 \/ tgt = 0 THEN S
       ELSE IF S.nodes[src].id = S.nodes[tgt].id THEN S
       ELSE TheOne({[S EXCEPT
                       !.rs = dp.rs,
                       !.conns = IF exists THEN @
                                 ELSE Append(@, Connection(S.nodes[src].id, S.nodes[tgt].id,
                                                           dp.protocol,
                                                           isEncryptedProtocol(dp.protocol),
                                                           Conf(80), "text"))]
                    : dp \in {detectProtocol(
                                 ContextWindow(T, IndexOfPair(T, sourceName, targetName),
                                     AtomLen(sourceName) + 1 + AtomLen(targetName)),
                                 S.rs)}})

\* The source of a match: match[1], or for the single-name patterns (pivot,
\* access, target) the node name found in the 200 characters before it
SourceNameOf(T, m, nodeNames) ==
    IF m.pattern \in {3, 4, 5}
    THEN findNearestNodeName(Substring(T, Max(0, m.index - windowSize), m.index), nodeNames)
    ELSE m.m1

RECURSIVE ConnectionLoop(_, _, _, _, _)
\* extractConnectionsFromText: the loop over the matches, from the i-th on
ConnectionLoop(T, matches, nodeNames, i, S) ==
    IF i > Len(matches) THEN S
    ELSE TheOne({ConnectionLoop(T, matches, nodeNames, i + 1, next)
                 : next \in {ConnectionStep(T, sourceName, matches[i].m2, S)
                             : sourceName \in {SourceNameOf(T, matches[i], nodeNames)}}})

\* extractConnectionsFromText
extractConnectionsFromText(T, text, S) ==
    TheOne({ConnectionLoop(T, matches, nodeNames, 1, S)
            : matches \in {ConnectionMatches(T, text)},
              nodeNames \in {[i \in DOMAIN S.nodes |-> S.nodes[i].name]}})

\* Math.round(n / d) for a confidence sum n held in twentieths (halves go up)
RoundDiv(n, d) == ((2 * n + 20 * d) \div (40 * d)) * 20

\* confidence * (tenths / 10), exact in twentieths
Scale(confidence, tenths) == (confidence * tenths) \div 10

\* What a secondary (vision/OCR) source reports: nodes and connections with
\* the confidences it chose
VisionNode(id, name, ipAddress, confidence) ==
    Node(name, id, ipAddress, "process", {}, "", "", Conf(confidence), "vision")

VisionConnection(sourceId, targetId, confidence) ==
    Connection(sourceId, targetId, "TCP", FALSE, Conf(confidence), "vision")

NoVision == [present |-> FALSE, nodes |-> <<>>, connections |-> <<>>]

\* EntityExtractor.findNodeByNameOrIP: the index of the first node with that
\* name or (when an address is given) that address; 0 for null
findNodeByNameOrIP(nodes, name, ipAddress) ==
    LET found == {i \in DOMAIN nodes :
                     \/ nodes[i].name = name
                     \/ ipAddress # "" /\ nodes[i].ipAddress = ipAddress}
    IN IF found = {} THEN 0 ELSE CHOOSE i \in found : \A j \in found : i <= j

\* A variant of the node loop body that leaves a matched node's confidence as
\* the text stage set it
MergeVisionNodeNoAverage(nodes, visionNode) ==
    LET e == findNodeByNameOrIP(nodes, visionNode.name, visionNode.ipAddress)
    IN IF e # 0
       THEN [nodes EXCEPT ![e] =
               [@ EXCEPT
                  !.ipAddress = IF @ = "" /\ visionNode.ipAddress # ""
                                THEN visionNode.ipAddress ELSE @,
                  !.visionConfirmed = TRUE]]
       ELSE addOrUpdateNode(nodes,
                [visionNode EXCEPT !.source = "vision", !.confidence = Scale(@, 9)])

\* mergeVisionResults: the body of the node loop for one vision node
MergeVisionNode(nodes, visionNode) ==
    LET e == findNodeByNameOrIP(nodes, visionNode.name, visionNode.ipAddress)
    IN IF e # 0
       THEN [nodes EXCEPT ![e] =
               [@ EXCEPT
                  !.ipAddress = IF @ = "" /\ visionNode.ipAddress # ""
                                THEN visionNode.ipAddress ELSE @,
                  !.confidence = RoundDiv(@ + visionNode.confidence, 2),
                  !.visionConfirmed = TRUE]]
       ELSE addOrUpdateNode(nodes,
                [visionNode EXCEPT !.source = "vision", !.confidence = Scale(@, 9)])

RECURSIVE MergeVisionNodes(_, _, _)
\* mergeVisionResults: the loop over visionResults.nodes, from the i-th on
MergeVisionNodes(nodes, visionNodes, i) ==
    IF i > Len(visionNodes) THEN nodes
    ELSE TheOne({MergeVisionNodes(next, visionNodes, i + 1)
                 : next \in {MergeVisionNode(nodes, visionNodes[i])}})

RECURSIVE MergeVisionConnections(_, _, _)
\* mergeVisionResults: the loop over visionResults.connections
MergeVisionConnections(conns, visionConns, i) ==
    IF i > Len(visionConns) THEN conns
    ELSE LET visionConn == visionConns[i]
             exists == \E c \in DOMAIN conns :
                          /\ conns[c].sourceId = visionConn.sourceId
                          /\ conns[c].targetId = visionConn.targetId
         IN TheOne({MergeVisionConnections(next, visionConns, i + 1)
                    : next \in {IF exists THEN conns
                                ELSE Append(conns,
                                         [visionConn EXCEPT !.source = "vision",
                                                            !.confidence = Scale(@, 8)])}})

\* EntityExtractor.mergeVisionResults
mergeVisionResults(S, visionResults) ==
    [S EXCEPT !.nodes = MergeVisionNodes(S.nodes, visionResults.nodes, 1),
              !.conns = MergeVisionConnections(S.conns, visionResults.connections, 1)]

\* calculateConfidence, the adjustment of one node
AdjustNode(node) ==
    [node EXCEPT !.confidence =
        Min(Conf(100), Max(0,
            @ + (IF node.ipAddress # "" /\ isValidIPv4(node.ipAddress)
                 THEN Conf(5) ELSE 0 - Conf(15))
              + (IF node.services # {} THEN Conf(5) ELSE 0)
              + (IF node.role # "" THEN Conf(5) ELSE 0)))]

\* calculateConfidence, the adjustment of one connection against the
\* adjusted nodes
AdjustConnection(nodes, conn) ==
    LET s == FindIndexById(nodes, conn.sourceId)
        t == FindIndexById(nodes, conn.targetId)
    IN IF s # 0 /\ t # 0
       THEN [conn EXCEPT !.confidence =
                RoundDiv(2 * @ + nodes[s].confidence + nodes[t].confidence, 4)]
       ELSE conn

\* EntityExtractor.calculateConfidence
calculateConfidence(S) ==
    TheOne({[S EXCEPT
               !.nodes = nodes,
               !.conns = [i \in DOMAIN S.conns |-> AdjustConnection(nodes, S.conns[i])]]
            : nodes \in {[i \in DOMAIN S.nodes |-> AdjustNode(S.nodes[i])]}})

\* EntityExtractor.extract, run with the pattern library's expressions in
\* state rs: the nodes and connections it returns and the state it leaves
extract(text, visionResults, rs) ==
    TheOne({TheOne({[nodes |-> S4.nodes, connections |-> S4.conns, rs |-> S4.rs]
                    : S4 \in {calculateConfidence(S3)
                    : S3 \in {IF visionResults.present
                              THEN mergeVisionResults(S2, visionResults) ELSE S2
                    : S2 \in {extractConnectionsFromText(T, text, S1)
                    : S1 \in {extractNodesFromText(T, text,
                                  [nodes |-> <<>>, conns |-> <<>>, rs |-> rs, seen |-> {}])
                             }}}}})
            : T \in {TextOf(text)}})

(***************************************************************************)
(* Specifications                                                          *)
(***************************************************************************)
NoCall == [fn |-> "none", name |-> "", role |-> "", text |-> <<>>,
           type |-> "", services |-> {}, protocol |-> ""]

NoExtract == [called |-> FALSE, text |-> <<>>, vision |-> NoVision,
              nodes |-> <<>>, connections |-> <<>>]

\* new DFDIR(): no element, no flow
InitDFDIRVars == elements = <<>> /\ flows = <<>> /\ lastOp = NoOp

\* No layout call made yet
InitLayoutVars == layoutNodes = <<>> /\ layoutConns = <<>> /\ layoutCall = NoLayout

\* The pattern library as the module loader leaves it: every lastIndex is 0
InitPatternVars ==
    regexState = ZeroRegexState /\ lastCall = NoCall /\ lastExtract = NoExtract

\* No cell array rendered, the service in its constructor's mode, no document
\* parsed, the wizard not opened
NoRender == [op |-> "none"]
NoDocument == [format |-> "none"]
NoParse == [op |-> "none"]
NoWizard == [mounted |-> FALSE]

\* JavaScript's undefined and null, and a number held by a property that may
\* also be undefined or null
Undefined == [k |-> "undefined"]
Null == [k |-> "null"]
Num(n) == [k |-> "number", v |-> n]

STRICT == "strict"
LENIENT == "lenient"
AUTO_FIX == "auto-fix"

InitRenderVars == cells = <<>> /\ mode = STRICT /\ lastRender = NoRender

InitParserVars == jsonData = NoDocument /\ lastParse = NoParse

InitUiVars == InitRenderVars /\ InitParserVars /\ wizard = NoWizard

Init == InitDFDIRVars /\ InitLayoutVars /\ InitPatternVars /\ InitUiVars

DoAddElement ==
    \E el \in ElementInputs : AddElement(el) /\ UNCHANGED <<layoutVars, patternVars, uiVars>>

DoAddFlow ==
    \E f \in FlowInputs : AddFlow(f) /\ UNCHANGED <<layoutVars, patternVars, uiVars>>

DoRemoveElement ==
    \E id \in ElemIds \cup {"ghost"} :
        RemoveElement(id) /\ UNCHANGED <<layoutVars, patternVars, uiVars>>

DoRemoveFlow ==
    \E id \in FlowIds \cup {"ghost"} :
        RemoveFlow(id) /\ UNCHANGED <<layoutVars, patternVars, uiVars>>

DoConvert == Convert /\ UNCHANGED <<layoutVars, patternVars, uiVars>>

NextDFDIR == DoAddElement \/ DoAddFlow \/ DoRemoveElement \/ DoRemoveFlow \/ DoConvert

SpecDFDIR == Init /\ [][NextDFDIR]_vars

(***************************************************************************)
(* Properties of the DFDIR and of the converter gate                       *)
(***************************************************************************)
ElementIdsOf(els) == {els[i].id : i \in DOMAIN els}

AllIndividuallyValid(els, fls) ==
    /\ \A i \in DOMAIN els : ElementValidate(els[i]) = <<>>
    /\ \A i \in DOMAIN fls : FlowValidate(fls[i]) = <<>>

EndpointsExist(els, fls) ==
    \A i \in DOMAIN fls : /\ fls[i].sourceId \in ElementIdsOf(els)
                          /\ fls[i].targetId \in ElementIdsOf(els)

\* C1 (as the code has it): in every reachable DFDIR, validate().valid is
\* true iff the DFDIR has at least one element, every element and every flow
\* validates on its own, and every flow's sourceId and targetId are ids of
\* elements of the DFDIR.
C1_ValidIffAllValidAndNonEmpty ==
    DFDIRValidate(elements, flows).valid
        <=> /\ Len(elements) > 0
            /\ AllIndividuallyValid(elements, flows)
            /\ EndpointsExist(elements, flows)

\* C1 as stated: validate().valid iff every element and flow validates on
\* its own and every flow's endpoints exist (nothing about emptiness).
C1_ValidIffAllValid ==
    DFDIRValidate(elements, flows).valid
        <=> /\ AllIndividuallyValid(elements, flows)
            /\ EndpointsExist(elements, flows)

\* A DFDIR with two flows that validates, and so passes every clause
C1_Witness ==
    /\ Len(flows) = 2
    /\ DFDIRValidate(elements, flows).valid

\* C2: convert returns a model only when validate() succeeds; otherwise it
\* throws one error and returns nothing, and the error carries every message
\* validate() collected - in particular, for each flow whose sourceId is no
\* element's id, the message with that flow's index and the missing id.
C2_ConvertThrowsAllMessages ==
    lastOp.op = "convert" =>
        LET v == DFDIRValidate(elements, flows)
        IN /\ lastOp.ret <=> v.valid
           /\ lastOp.threw <=> ~v.valid
           /\ ~(lastOp.threw /\ lastOp.ret)
           /\ lastOp.threw =>
                /\ \A i \in DOMAIN v.errors : v.errors[i] \in Range(lastOp.msgs)
                /\ Len(lastOp.msgs) = Len(v.errors)
                /\ \A i \in DOMAIN flows :
                      flows[i].sourceId \notin ElementIdsOf(elements) =>
                          Message("Source element not found", i - 1,
                                  flows[i].sourceId, <<>>) \in Range(lastOp.msgs)

\* convert has thrown on a DFDIR with several violations, one of them a
\* second flow whose sourceId matches no element
C2_Witness ==
    /\ lastOp.op = "convert"
    /\ lastOp.threw
    /\ Len(lastOp.msgs) >= 3
    /\ Len(flows) = 2
    /\ flows[2].sourceId \notin ElementIdsOf(elements)

NoSelfLoopAndEndpointsExist ==
    \A i \in DOMAIN flows :
        /\ flows[i].sourceId # flows[i].targetId
        /\ flows[i].sourceId \in ElementIdsOf(elements)
        /\ flows[i].targetId \in ElementIdsOf(elements)

\* C5 (as the code has it): in every reachable DFDIR on which validate()
\* succeeds, every flow has sourceId different from targetId and both are ids
\* of elements currently in the DFDIR.
C5_ValidatedFlowsAreSound ==
    DFDIRValidate(elements, flows).valid => NoSelfLoopAndEndpointsExist

\* C5 as stated: in every reachable DFDIR every flow has sourceId different
\* from targetId and both are ids of elements currently in the DFDIR.
C5_FlowsAlwaysSound == NoSelfLoopAndEndpointsExist

\* A validated DFDIR that holds flows in both directions between two elements
C5_Witness ==
    /\ DFDIRValidate(elements, flows).valid
    /\ \E i, j \in DOMAIN flows : /\ flows[i].sourceId = flows[j].targetId
                                  /\ flows[i].targetId = flows[j].sourceId

\* C6: removeElement(id) for a present id returns true, removes that element
\* and every flow whose sourceId or targetId is id, and keeps all other
\* elements and flows in their order; for an absent id it returns false and
\* changes nothing.
C6_RemoveElementCascades ==
    [][lastOp'.op = "removeElement" =>
        LET id == lastOp'.id
        IN IF id \in ElementIdsOf(elements)
           THEN /\ lastOp'.ret
                /\ elements' = SelectSeq(elements, LAMBDA el : el.id # id)
                /\ Len(elements') = Len(elements) - 1
                /\ flows' = SelectSeq(flows, LAMBDA f : f.sourceId # id /\ f.targetId # id)
                /\ \A i \in DOMAIN flows' : flows'[i].sourceId # id /\ flows'[i].targetId # id
           ELSE /\ ~lastOp'.ret
                /\ elements' = elements
                /\ flows' = flows]_vars

\* removeElement has just returned true and left one flow behind although the
\* DFDIR held two: one referenced the element, the other did not
C6_Witness ==
    /\ lastOp.op = "removeElement"
    /\ lastOp.ret
    /\ Len(elements) = 1
    /\ Len(flows) = 1
    /\ flows[1].sourceId = flows[1].targetId

\* C7: addElement (addFlow) with an id some element (flow) already has throws
\* and changes nothing; hence element ids stay pairwise distinct and flow ids
\* stay pairwise distinct.
C7_DuplicateIdsRejected ==
    [][/\ (lastOp'.op = "addElement" /\ lastOp'.id \in ElementIdsOf(elements))
            => (lastOp'.threw /\ elements' = elements /\ flows' = flows)
       /\ (lastOp'.op = "addFlow" /\ lastOp'.id \in {flows[i].id : i \in DOMAIN flows})
            => (lastOp'.threw /\ elements' = elements /\ flows' = flows)
       /\ \A i, j \in DOMAIN elements' : elements'[i].id = elements'[j].id => i = j
       /\ \A i, j \in DOMAIN flows' : flows'[i].id = flows'[j].id => i = j]_vars

\* addFlow has just thrown on a duplicate id while the DFDIR is full of
\* elements and holds a flow
C7_Witness ==
    /\ lastOp.op = "addFlow"
    /\ lastOp.threw
    /\ Len(elements) = MaxElements
    /\ Len(flows) >= 1

(***************************************************************************)
(* Layout engine: calculateLayout applied to given node and connection     *)
(* lists (and re-applied to its own result, which it mutates in place)     *)
(***************************************************************************)
InitLayout ==
    /\ InitDFDIRVars
    /\ InitPatternVars
    /\ InitUiVars
    /\ layoutCall = NoLayout
    /\ \E input \in LayoutInputs : layoutNodes = input[1] /\ layoutConns = input[2]

DoCalculateLayout ==
    \E layoutType \in LayoutAlgorithms \cup {"circular"} :
        /\ calculateLayout(layoutNodes, layoutConns, layoutType)
        /\ UNCHANGED <<dfdirVars, patternVars, uiVars>>

NextLayout == DoCalculateLayout

SpecLayout == InitLayout /\ [][NextLayout]_vars

PatternContexts == {<<>>} \cup {<<seg>> : seg \in Segments}

PatternRoles == {"", "Attacker", "Router"}

ServiceTexts == {"ssh", "ssh, metasploit", "x64"}

Call(fn, name, role, text, type, services, protocol) ==
    [fn |-> fn, name |-> name, role |-> role, text |-> text,
     type |-> type, services |-> services, protocol |-> protocol]

CallClassifyNodeType ==
    \E name \in Hosts, role \in PatternRoles, context \in PatternContexts :
        LET r == classifyNodeType(name, role, TextOf(context), regexState)
        IN /\ regexState' = r.rs
           /\ lastCall' = Call("classifyNodeType", name, role, context, r.type, {}, "")
           /\ UNCHANGED <<lastExtract, dfdirVars, layoutVars, uiVars>>

CallExtractServices ==
    \E servicesText \in ServiceTexts :
        LET r == extractServices(AtomText(servicesText), regexState)
        IN /\ regexState' = r.rs
           /\ lastCall' = Call("extractServices", servicesText, "", <<>>, "", r.services, "")
           /\ UNCHANGED <<lastExtract, dfdirVars, layoutVars, uiVars>>

CallDetectProtocol ==
    \E context \in PatternContexts :
        LET r == detectProtocol(TextOf(context), regexState)
        IN /\ regexState' = r.rs
           /\ lastCall' = Call("detectProtocol", "", "", context, "", {}, r.protocol)
           /\ UNCHANGED <<lastExtract, dfdirVars, layoutVars, uiVars>>

NextPatterns == CallClassifyNodeType \/ CallExtractServices \/ CallDetectProtocol

SpecPatterns == Init /\ [][NextPatterns]_vars

\* The result the call recorded in c gives when the expressions are in state rs
ResultIn(c, rs) ==
    CASE c.fn = "classifyNodeType" ->
            Call(c.fn, c.name, c.role, c.text,
                 classifyNodeType(c.name, c.role, TextOf(c.text), rs).type, {}, "")
      [] c.fn = "extractServices" ->
            Call(c.fn, c.name, c.role, c.text, "",
                 extractServices(AtomText(c.name), rs).services, "")
      [] c.fn = "detectProtocol" ->
            Call(c.fn, c.name, c.role, c.text, "", {},
                 detectProtocol(TextOf(c.text), rs).protocol)
      [] OTHER -> c

\* C4: classifyNodeType, extractServices and detectProtocol are stateless: in
\* any sequence of calls each call returns what its arguments alone determine,
\* that is, what the same call returns as the first call of the process.
C4_HelpersAreStateless == lastCall = ResultIn(lastCall, ZeroRegexState)

(***************************************************************************)
(* Entity extractor: extract called on one text after another in one       *)
(* process (text only)                                                     *)
(***************************************************************************)
Extracted(text, vision, r) ==
    [called |-> TRUE, text |-> text, vision |-> vision,
     nodes |-> r.nodes, connections |-> r.connections]

\* The documents of a session: the first may be any text; afterwards the
\* same document is extracted again, or a one-line document is
SessionTexts ==
    IF lastExtract.called
    THEN {lastExtract.text} \cup {<<seg>> : seg \in Segments}
    ELSE Texts

DoExtract ==
    \E text \in SessionTexts :
        LET r == extract(text, NoVision, regexState)
        IN /\ regexState' = r.rs
           /\ lastExtract' = Extracted(text, NoVision, r)
           /\ UNCHANGED <<lastCall, dfdirVars, layoutVars, uiVars>>

NextExtract == DoExtract

SpecExtract == Init /\ [][NextExtract]_vars

\* What extract returned, without the generated ids: the nodes by their
\* fields, the connections with their endpoints by name
NameOfId(nodes, id) ==
    IF FindIndexById(nodes, id) = 0 THEN id ELSE nodes[FindIndexById(nodes, id)].name

ResultView(e) ==
    [nodes |-> {[n EXCEPT !.id = ""] : n \in Range(e.nodes)},
     connections |-> {[c EXCEPT !.sourceId = NameOfId(e.nodes, c.sourceId),
                                !.targetId = NameOfId(e.nodes, c.targetId)]
                      : c \in Range(e.connections)}]

\* C3: running extract twice on the same text yields identical node sets and
\* connection sets (ids aside); here, for two runs made one after the other.
C3_ExtractTwiceSameResult ==
    [][(/\ lastExtract.called
        /\ lastExtract'.text = lastExtract.text
        /\ lastExtract'.vision = lastExtract.vision)
       => ResultView(lastExtract') = ResultView(lastExtract)]_vars

NodesNamed(e, name) == {i \in DOMAIN e.nodes : e.nodes[i].name = name}

Mentions(text, kind, h) == \E i \in DOMAIN text : text[i].k = kind /\ text[i].a = h

\* C10: if a hostname is mentioned in a table row and in inline Name (IPv4)
\* form, in either order, extract returns exactly one node with that name,
\* with table provenance and the table stage's base confidence of 95 (plus
\* the final adjustment: +5 valid address, +5 services, +5 role, capped at 100).
C10_TableBeatsInline ==
    lastExtract.called =>
        \A h \in Hosts :
            (Mentions(lastExtract.text, "row", h) /\ Mentions(lastExtract.text, "inline", h))
            => /\ Cardinality(NodesNamed(lastExtract, h)) = 1
               /\ \A i \in NodesNamed(lastExtract, h) :
                    LET n == lastExtract.nodes[i]
                    IN /\ n.extractedFrom = "table"
                       /\ n.ipAddress = HostIP(h)
                       /\ n.role = HostRole(h)
                       /\ n.confidence =
                            Min(Conf(100),
                                Conf(95) + Conf(5) + Conf(5)
                                + (IF n.services # {} THEN Conf(5) ELSE 0))

\* extract has run on a text that mentions Kali-01 inline first and in a table
\* row second, and returned a Kali-01 node
C10_Witness ==
    /\ lastExtract.called
    /\ lastExtract.text = <<Segment("inline", "Kali-01", ""), Segment("row", "Kali-01", "")>>
    /\ NodesNamed(lastExtract, "Kali-01") # {}

\* The hostnames listed in the table rows of a text
TableHosts(text) == {text[i].a : i \in {j \in DOMAIN text : text[j].k = "row"}}

\* C11: for a document whose hosts are all listed in table rows with k distinct
\* hostnames, extract returns exactly k nodes (the value of the OS column does
\* not become a node of its own).
C11_TableYieldsOneNodePerHost ==
    (/\ lastExtract.called
     /\ \A i \in DOMAIN lastExtract.text : lastExtract.text[i].k = "row")
    => Len(lastExtract.nodes) = Cardinality(TableHosts(lastExtract.text))

(***************************************************************************)
(* Entity extractor with a secondary source: extract called on a text and  *)
(* a vision result in a fresh process, and then again on the same input    *)
(***************************************************************************)
VisionInputs ==
    {NoVision,
     [present |-> TRUE,
      nodes |-> <<VisionNode("v1", "Cam-01", "10.0.0.5", 85)>>,
      connections |-> <<>>],
     [present |-> TRUE,
      nodes |-> <<VisionNode("v1", "Kali-01", "", 90)>>,
      connections |-> <<VisionConnection("v1", "v9", 150)>>],
     [present |-> TRUE,
      nodes |-> <<VisionNode("v1", "Cam-01", "", 85),
                  VisionNode("v2", "Cam-02", "10.0.0.5", 85)>>,
      connections |-> <<VisionConnection("v1", "v2", 90),
                        VisionConnection("v2", "v2", 90)>>],
     [present |-> TRUE,
      nodes |-> <<VisionNode("v1", "Edge-GW", "192.168.100.1", 80),
                  VisionNode("v2", "Cam-01", "", 85)>>,
      connections |-> <<VisionConnection("v1", "v2", 90),
                        VisionConnection("v1", "v2", 70)>>]}

DoExtractWithVision ==
    \E text \in (IF lastExtract.called THEN {lastExtract.text} ELSE Texts),
       visionResults \in (IF lastExtract.called THEN {lastExtract.vision}
                          ELSE VisionInputs) :
        LET r == extract(text, visionResults, regexState)
        IN /\ regexState' = r.rs
           /\ lastExtract' = Extracted(text, visionResults, r)
           /\ UNCHANGED <<lastCall, dfdirVars, layoutVars, uiVars>>

NextVision == DoExtractWithVision

SpecVision == Init /\ [][NextVision]_vars

IsConfidence(c) == c % Conf(1) = 0 /\ 0 <= c /\ c <= Conf(100)

\* C9: for every text and every secondary-source result, every node and
\* every connection that extract returns has a confidence that is an integer
\* between 0 and 100.
C9_ConfidencesIntegerInRange ==
    lastExtract.called =>
        /\ \A i \in DOMAIN lastExtract.nodes : IsConfidence(lastExtract.nodes[i].confidence)
        /\ \A i \in DOMAIN lastExtract.connections :
              IsConfidence(lastExtract.connections[i].confidence)

\* C12: in the connection list extract returns, for any text and with or
\* without a secondary source, no connection has sourceId equal to targetId and
\* no two connections have the same ordered (sourceId, targetId) pair.
C12_NoSelfLoopNoDuplicatePair ==
    lastExtract.called =>
        /\ \A i \in DOMAIN lastExtract.connections :
              lastExtract.connections[i].sourceId # lastExtract.connections[i].targetId
        /\ \A i, j \in DOMAIN lastExtract.connections :
              (/\ lastExtract.connections[i].sourceId = lastExtract.connections[j].sourceId
               /\ lastExtract.connections[i].targetId = lastExtract.connections[j].targetId)
              => i = j

(***************************************************************************)
(* Entity extractor on a narrative: a document that mentions hosts (table  *)
(* rows, inline mentions) and ends with one connection phrase              *)
(***************************************************************************)
MaxMentions == 2

\* "| Kali-01 | ... |", "Kali-01 (192.168.100.10)", likewise for Router-01
MentionSegments ==
    {Segment("row", h, "") : h \in Hosts} \cup {Segment("inline", h, "") : h \in Hosts}

\* "Kali-01 -> Router-01", "pivot through Kali-01", "pivot through Router-01",
\* "Kali-01 pivots through Router-01"
PhraseSegments ==
    {Segment("arrow", "Kali-01", "Router-01"), Segment("pivots", "Kali-01", "Router-01")}
    \cup {Segment("pivot", "", h) : h \in Hosts}

NarrativeTexts ==
    {pre \o <<ph>> : pre \in UNION {[1..n -> MentionSegments] : n \in 0..MaxMentions},
                     ph \in PhraseSegments}

DoExtractNarrative ==
    \E text \in (IF lastExtract.called THEN {lastExtract.text} ELSE NarrativeTexts) :
        LET r == extract(text, NoVision, regexState)
        IN /\ regexState' = r.rs
           /\ lastExtract' = Extracted(text, NoVision, r)
           /\ UNCHANGED <<lastCall, dfdirVars, layoutVars, uiVars>>

NextNarrative == DoExtractNarrative

SpecNarrative == Init /\ [][NextNarrative]_vars

\* The connection phrase of a narrative: its last line
PhraseOf(text) == text[Len(text)]

\* C13: for the text "Kali-01 pivots through Router-01", with Kali-01 and
\* Router-01 both extracted as nodes, extract returns exactly one connection,
\* from Kali-01 to Router-01.
C13_PivotsThroughYieldsOneFlow ==
    (/\ lastExtract.called
     /\ PhraseOf(lastExtract.text) = Segment("pivots", "Kali-01", "Router-01")
     /\ NodesNamed(lastExtract, "Kali-01") # {}
     /\ NodesNamed(lastExtract, "Router-01") # {})
    => /\ Len(lastExtract.connections) = 1
       /\ NameOfId(lastExtract.nodes, lastExtract.connections[1].sourceId) = "Kali-01"
       /\ NameOfId(lastExtract.nodes, lastExtract.connections[1].targetId) = "Router-01"

\* The 200 characters of a narrative before its connection phrase
WindowBefore(text) ==
    LET T == TextOf(text)
        index == (CHOOSE q \in Range(T.atoms) : q.seg = Len(text) /\ q.pos = 1).at
    IN Substring(T, Max(0, index - windowSize), index)

\* The offset of the last mention of a name in a string; -1 when it has none
LastMention(str, name) ==
    LET found == {i \in DOMAIN str.atoms : Occurs(name, str.atoms[i].a)}
    IN IF found = {} THEN -1
       ELSE str.atoms[CHOOSE i \in found : \A j \in found : j <= i].at

\* The names of the known nodes whose mention lies nearest before the phrase
NearestNames(e) ==
    LET names == {e.nodes[i].name : i \in DOMAIN e.nodes}
        W == WindowBefore(e.text)
    IN {n \in names : /\ LastMention(W, n) >= 0
                      /\ \A m \in names : LastMention(W, m) <= LastMention(W, n)}

\* C14: for a single-argument connection phrase (pivot through X) the source of
\* the resulting connection is the known node whose mention lies nearest
\* before the phrase inside the preceding 200-character window.
C14_SourceIsNearestMention ==
    (/\ lastExtract.called
     /\ PhraseOf(lastExtract.text).k = "pivot"
     /\ lastExtract.connections # <<>>)
    => NameOfId(lastExtract.nodes, lastExtract.connections[1].sourceId)
          \in NearestNames(lastExtract)

(***************************************************************************)
(* Merge of a secondary source (SpecVision)                                *)
(***************************************************************************)
\* The base confidence a text stage gives a node, by its provenance
TextBase(extractedFrom) ==
    CASE extractedFrom = "table" -> Conf(95)
      [] extractedFrom = "inline" -> Conf(85)
      [] extractedFrom = "osPattern" -> Conf(75)
      [] OTHER -> Conf(65)

\* The final pass on a node whose confidence before it was c
FinalPass(n, c) ==
    Min(Conf(100), Max(0,
        c + (IF n.ipAddress # "" /\ isValidIPv4(n.ipAddress) THEN Conf(5) ELSE 0 - Conf(15))
          + (IF n.services # {} THEN Conf(5) ELSE 0)
          + (IF n.role # "" THEN Conf(5) ELSE 0)))

\* The text nodes of a result that a secondary node matches by name or IP
MatchedBy(e, v) ==
    {i \in DOMAIN e.nodes :
        /\ e.nodes[i].source = "text"
        /\ \/ e.nodes[i].name = v.name
           \/ v.ipAddress # "" /\ e.nodes[i].ipAddress = v.ipAddress}

\* The connections of a result with a given source/target pair
WithPair(e, c) ==
    {i \in DOMAIN e.connections :
        /\ e.connections[i].sourceId = c.sourceId
        /\ e.connections[i].targetId = c.targetId}

\* The first secondary connection with the same pair as the k-th
FirstOfPair(conns, k) ==
    conns[CHOOSE j \in 1..k :
            /\ conns[j].sourceId = conns[k].sourceId
            /\ conns[j].targetId = conns[k].targetId
            /\ \A h \in 1..(j - 1) : ~(/\ conns[h].sourceId = conns[k].sourceId
                                        /\ conns[h].targetId = conns[k].targetId)]

Band(tier) == SelectSeq(Indexes(layoutNodes), LAMBDA i : TierOf(layoutNodes[i].type) = tier)

TierRank(tier) == CASE tier = "actor" -> 1 [] tier = "process" -> 2 [] OTHER -> 3

\* C16: the tiered layout puts all actors on one y, all processes on a larger
\* y and all stores on a still larger y, and within each band, for every band
\* size, the nodes are evenly spaced in x and the band's horizontal midpoint
\* is the canvas centre (canvasWidth / 2).
C16_TieredBandsCentred ==
    (layoutCall.layoutType = "tiered" /\ ~layoutCall.threw) =>
        /\ \A i, j \in DOMAIN layoutNodes :
              LET ri == TierRank(TierOf(layoutNodes[i].type))
                  rj == TierRank(TierOf(layoutNodes[j].type))
              IN /\ ri = rj => layoutNodes[i].y = layoutNodes[j].y
                 /\ ri < rj => layoutNodes[i].y < layoutNodes[j].y
        /\ \A tier \in {"actor", "process", "store"} :
              LET b == Band(tier)
              IN b # <<>> =>
                   /\ \A k \in 1..(Len(b) - 2) :
                         layoutNodes[b[k + 1]].x - layoutNodes[b[k]].x
                            = layoutNodes[b[k + 2]].x - layoutNodes[b[k + 1]].x
                   /\ \A k \in 1..(Len(b) - 1) : layoutNodes[b[k]].x < layoutNodes[b[k + 1]].x
                   /\ layoutNodes[b[1]].x + layoutNodes[b[Len(b)]].x = canvasWidth

(***************************************************************************)
(* Hierarchical layout of deep graphs: a chain 1 -> 2 -> ... -> n of        *)
(* process nodes with at most one more connection (a shortcut, a back edge, *)
(* a self-loop, or a target that is no node)                               *)
(***************************************************************************)
MaxChain == 23

ChainNodes(n) == [i \in 1..n |-> LayoutNode(i, "process")]

ChainConns(n) == [i \in 1..(n - 1) |-> Conn(i, i + 1)]

LevelingInputs ==
    UNION {{<<ChainNodes(n), ChainConns(n) \o extra>>
            : extra \in {<<>>} \cup {<<Conn(s, t)>> : s \in 1..n, t \in 0..n}}
           : n \in 1..MaxChain}

InitLeveling ==
    /\ InitDFDIRVars
    /\ InitPatternVars
    /\ InitUiVars
    /\ layoutCall = NoLayout
    /\ \E input \in LevelingInputs : layoutNodes = input[1] /\ layoutConns = input[2]

DoCalculateHierarchicalLayout ==
    /\ calculateLayout(layoutNodes, layoutConns, "hierarchical")
    /\ UNCHANGED <<dfdirVars, patternVars, uiVars>>

NextLeveling == DoCalculateHierarchicalLayout

SpecLeveling == InitLeveling /\ [][NextLeveling]_vars

\* The ids of the nodes without incoming connection
RootIds ==
    {layoutNodes[i].id : i \in DOMAIN layoutNodes}
        \ {layoutConns[e].targetId : e \in DOMAIN layoutConns}

RECURSIVE DistancesFrom(_, _, _, _)
\* The shortest directed distance of every node from the frontier, which lies
\* at distance d; dist holds the distances found so far (-1: none)
DistancesFrom(conns, frontier, d, dist) ==
    IF frontier = {} THEN dist
    ELSE TheOne({DistancesFrom(conns, next, d + 1, dist2)
                 : dist2 \in {[id \in DOMAIN dist |-> IF id \in frontier THEN d ELSE dist[id]]},
                   next \in {{id \in DOMAIN dist :
                                /\ dist[id] = -1
                                /\ id \notin frontier
                                /\ \E e \in DOMAIN conns : /\ conns[e].sourceId \in frontier
                                                           /\ conns[e].targetId = id}}})

\* The shortest directed distance of every node from the root set
RootDistance ==
    DistancesFrom(layoutConns, RootIds, 0,
                  [id \in {layoutNodes[i].id : i \in DOMAIN layoutNodes} |-> -1])

\* The level a y coordinate stands for
LevelY(level) == 100 + level * tierSpacing

C18_AtMostTwentyLevels ==
    (layoutCall.layoutType = "hierarchical" /\ ~layoutCall.threw /\ RootIds # {}) =>
        \A dist \in {RootDistance} :
           LET late == {i \in DOMAIN layoutNodes :
                           \/ dist[layoutNodes[i].id] = -1
                           \/ dist[layoutNodes[i].id] >= levelCap}
           IN /\ \A i, j \in late : layoutNodes[i].y = layoutNodes[j].y
              /\ \A i \in DOMAIN layoutNodes : \A j \in late :
                    i \notin late => layoutNodes[i].y < layoutNodes[j].y

(***************************************************************************)
(* Overlap resolution (T2TLayout.preventOverlaps).  The nodes handed to it *)
(* have coordinates that are multiples of gridSnap, as every layout        *)
(* algorithm leaves them, and minDistance is at most two grid steps, so a  *)
(* push moves a coordinate by less than or exactly one grid step before it *)
(* is snapped again.                                                       *)
(***************************************************************************)
maxIterations == 100
defaultMinDistance == 200

Abs(n) == IF n < 0 THEN -n ELSE n

\* distance < minDistance, for distance = Math.sqrt(dx * dx + dy * dy)
TooClose(dx, dy, minDistance) == dx * dx + dy * dy < minDistance * minDistance

\* The size of a push along one axis against half a grid step: -1, 0 or 1 as
\* |pushDistance * c / distance| is below, equal to or above gridSnap / 2,
\* where c is the pair's difference on that axis and (dx, dy) is not (0, 0);
\* pushDistance = (minDistance - distance) / 2, so the comparison is that of
\* minDistance * |c| with (gridSnap + |c|) * distance, both squared
PushCmp(c, dx, dy, minDistance) ==
    LET lhs == (minDistance * Abs(c)) * (minDistance * Abs(c))
        rhs == (gridSnap + Abs(c)) * (gridSnap + Abs(c)) * (dx * dx + dy * dy)
    IN  IF lhs < rhs THEN -1 ELSE IF lhs = rhs THEN 0 ELSE 1

\* pushDistance * Math.cos(angle): its sign and size.  Math.atan2(0, 0) is 0,
\* so two nodes on the same spot are pushed along x by minDistance / 2
PushX(dx, dy, minDistance) ==
    IF dx = 0 /\ dy = 0
    THEN [sign |-> 1,
          cmp |-> IF minDistance < gridSnap THEN -1
                  ELSE IF minDistance = gridSnap THEN 0 ELSE 1]
    ELSE [sign |-> IF dx > 0 THEN 1 ELSE IF dx < 0 THEN -1 ELSE 0,
          cmp |-> PushCmp(dx, dx, dy, minDistance)]

\* pushDistance * Math.sin(angle): its sign and size
PushY(dx, dy, minDistance) ==
    IF dx = 0 /\ dy = 0
    THEN [sign |-> 0, cmp |-> -1]
    ELSE [sign |-> IF dy > 0 THEN 1 ELSE IF dy < 0 THEN -1 ELSE 0,
          cmp |-> PushCmp(dy, dx, dy, minDistance)]

\* snapToGrid(value - push) for a grid-aligned value: Math.round rounds
\* halves up, so a push of exactly half a step moves the value only upwards
SnapMinus(value, push) ==
    value + gridSnap * (IF push.sign > 0 THEN (IF push.cmp > 0 THEN -1 ELSE 0)
                        ELSE IF push.sign < 0 THEN (IF push.cmp >= 0 THEN 1 ELSE 0)
                        ELSE 0)

\* snapToGrid(value + push) for a grid-aligned value
SnapPlus(value, push) ==
    value + gridSnap * (IF push.sign > 0 THEN (IF push.cmp >= 0 THEN 1 ELSE 0)
                        ELSE IF push.sign < 0 THEN (IF push.cmp > 0 THEN -1 ELSE 0)
                        ELSE 0)

\* The body of the inner loop for the pair (i, j) on P = [nodes, hasOverlap]
PairStep(P, i, j, minDistance) ==
    LET node1 == P.nodes[i]
        node2 == P.nodes[j]
        dx == node2.x - node1.x
        dy == node2.y - node1.y
        px == PushX(dx, dy, minDistance)
        py == PushY(dx, dy, minDistance)
    IN  IF TooClose(dx, dy, minDistance)
        THEN [nodes |-> [k \in DOMAIN P.nodes |->
                            IF k = i
                            THEN [node1 EXCEPT !.x = SnapMinus(node1.x, px),
                                               !.y = SnapMinus(node1.y, py)]
                            ELSE IF k = j
                            THEN [node2 EXCEPT !.x = SnapPlus(node2.x, px),
                                               !.y = SnapPlus(node2.y, py)]
                            ELSE P.nodes[k]],
              hasOverlap |-> TRUE]
        ELSE P

\* One pass: the two for loops, over the pairs i < j in order from (i, j) on
RECURSIVE OverlapPass(_, _, _, _)
OverlapPass(P, i, j, minDistance) ==
    IF i > Len(P.nodes) THEN P
    ELSE IF j > Len(P.nodes) THEN OverlapPass(P, i + 1, i + 2, minDistance)
    ELSE TheOne({OverlapPass(next, i, j + 1, minDistance)
                 : next \in {PairStep(P, i, j, minDistance)}})

\* A loop condition that gives up after the first pass
ContinuePassesOnce(hasOverlap, iterations) == hasOverlap /\ iterations < 1

\* while (hasOverlap && iterations < maxIterations)
ContinuePasses(hasOverlap, iterations) == hasOverlap /\ iterations < maxIterations

\* One turn of the while loop on S = [nodes, hasOverlap, iterations]: a pass
\* when the loop condition holds, and S as it is once the loop has ended
OverlapTurn(S, minDistance) ==
    IF ContinuePasses(S.hasOverlap, S.iterations)
    THEN TheOne({[nodes |-> pass.nodes, hasOverlap |-> pass.hasOverlap,
                  iterations |-> S.iterations + 1]
                 : pass \in {OverlapPass([nodes |-> S.nodes, hasOverlap |-> FALSE],
                                         1, 2, minDistance)}})
    ELSE S

\* n turns of the while loop, as the first half of them and then the rest
RECURSIVE OverlapLoop(_, _, _)
OverlapLoop(S, n, minDistance) ==
    IF n = 0 THEN S
    ELSE IF n = 1 THEN OverlapTurn(S, minDistance)
    ELSE TheOne({OverlapLoop(half, n - n \div 2, minDistance)
                 : half \in {OverlapLoop(S, n \div 2, minDistance)}})

\* T2TLayout.preventOverlaps: the nodes, with the loop's final hasOverlap and
\* iterations; the loop has ended after maxIterations turns at the latest
preventOverlaps(ns, minDistance) ==
    TheOne({OverlapLoop(start, maxIterations, minDistance)
            : start \in {[nodes |-> ns, hasOverlap |-> TRUE, iterations |-> 0]}})

\* The four corners of one grid cell, in grid steps: two nodes on them are on
\* one spot, one step apart along an axis, or on a diagonal
CellCorners == {<<0, 0>>, <<1, 0>>, <<0, 1>>, <<1, 1>>}

\* Node lists placed on the corners of one grid cell
PlacedNodeLists ==
    UNION {{[i \in 1..n |-> [id |-> i, type |-> "process",
                             x |-> gridSnap * at[i][1], y |-> gridSnap * at[i][2]]]
            : at \in [1..n -> CellCorners]}
           : n \in 0..MaxLayoutNodes}

\* minDistance as callers pass it: the default, or one grid step
MinDistances == {defaultMinDistance, gridSnap}

InitOverlap ==
    /\ InitDFDIRVars
    /\ InitPatternVars
    /\ InitUiVars
    /\ layoutCall = NoLayout
    /\ layoutConns = <<>>
    /\ layoutNodes \in PlacedNodeLists

\* preventOverlaps(nodes, minDistance): the node objects are moved in place
DoPreventOverlaps ==
    /\ \E minDistance \in MinDistances :
          \E done \in {preventOverlaps(layoutNodes, minDistance)} :
              /\ layoutNodes' = done.nodes
              /\ layoutCall' = [layoutType |-> "preventOverlaps", threw |-> FALSE,
                                minDistance |-> minDistance,
                                iterations |-> done.iterations,
                                hasOverlap |-> done.hasOverlap]
    /\ UNCHANGED <<dfdirVars, patternVars, layoutConns, uiVars>>

NextOverlap == DoPreventOverlaps

SpecOverlap == InitOverlap /\ [][NextOverlap]_vars

\* Some two nodes are closer than the last call's minDistance
OverlapRemains ==
    \E i, j \in DOMAIN layoutNodes :
        /\ i < j
        /\ TooClose(layoutNodes[j].x - layoutNodes[i].x,
                    layoutNodes[j].y - layoutNodes[i].y, layoutCall.minDistance)

\* C19: preventOverlaps returns after at most 100 passes over the node pairs;
\* when it returns before the 100th pass no two nodes are closer than
\* minDistance, so an overlap remains only when the cap was reached
C19_OverlapPassesBounded ==
    layoutCall.layoutType = "preventOverlaps" =>
        /\ layoutCall.iterations \in 1..maxIterations
        /\ layoutCall.iterations < maxIterations => ~OverlapRemains
        /\ OverlapRemains => layoutCall.iterations = maxIterations

\* Three nodes on one spot are pulled apart in three passes
C19_Witness ==
    /\ layoutCall.layoutType = "preventOverlaps"
    /\ layoutCall.minDistance = defaultMinDistance
    /\ layoutCall.iterations = 3
    /\ Len(layoutNodes) = 3
    /\ layoutNodes[1].x = -gridSnap /\ layoutNodes[2].x = gridSnap
    /\ layoutNodes[3].x = 3 * gridSnap
    /\ ~OverlapRemains

(***************************************************************************)
(* Confidence styling (T2TConverter.convertElementToCell, getStrokeColor)  *)
(***************************************************************************)
minConfidence == 0
maxConfidence == 100

NormalStroke == "#333333"
AmberStroke == "#FFA726"
RedStroke == "#E53935"

\* A variant of getStrokeColor whose first test is strict
getStrokeColorStrict(element) ==
    IF element.confidence > 85 THEN NormalStroke
    ELSE IF element.confidence >= 70 THEN AmberStroke
    ELSE RedStroke

\* T2TConverter.getStrokeColor
getStrokeColor(element) ==
    IF element.confidence >= 85 THEN NormalStroke
    ELSE IF element.confidence >= 70 THEN AmberStroke
    ELSE RedStroke

\* typeMap[element.type] || 'tm.Process'
TdType(type) ==
    CASE type = "actor" -> "tm.Actor"
      [] type = "store" -> "tm.Store"
      [] OTHER -> "tm.Process"

\* shapeMap[element.type] || 'process'
ShapeName(type) == IF type \in {"actor", "store"} THEN type ELSE "process"

\* T2TConverter.convertElementToCell.  text is attrs.text.text, stroke is
\* attrs.body.stroke; the cell has no type, source or target of its own
\* (the type is in data)
convertElementToCell(element) ==
    [position |-> [x |-> element.x, y |-> element.y],
     size |-> [width |-> 160, height |-> 80],
     text |-> element.name,
     label |-> "",
     stroke |-> getStrokeColor(element),
     shape |-> ShapeName(element.type),
     zIndex |-> Num(1),
     id |-> element.id,
     data |-> [type |-> TdType(element.type), name |-> element.name],
     type |-> "",
     source |-> Undefined,
     target |-> Undefined]

\* T2TConverter.convert with the cells of the diagram it returns: one cell per
\* element, in order (the flows' cells follow them)
ConvertToCells ==
    LET dfdirResult == validateDFDIR(elements, flows)
    IN /\ IF ~dfdirResult.valid
          THEN lastOp' = [op |-> "convert", id |-> "", threw |-> TRUE, ret |-> FALSE,
                          msgs |-> ConvertErrorMessages(dfdirResult.errors),
                          cells |-> <<>>]
          ELSE lastOp' = [op |-> "convert", id |-> "", threw |-> FALSE, ret |-> TRUE,
                          msgs |-> <<>>,
                          cells |-> [i \in DOMAIN elements |->
                                        convertElementToCell(elements[i])]]
       /\ UNCHANGED <<elements, flows>>

\* A DFDIR holding one element of any type with any whole confidence, those
\* one step outside the valid range included
InitCells ==
    /\ elements \in {<<DFDElement("e1", "n", type, confidence)>>
                     : type \in ElementTypes,
                       confidence \in (minConfidence - 1)..(maxConfidence + 1)}
    /\ flows = <<>>
    /\ lastOp = NoOp
    /\ InitLayoutVars
    /\ InitPatternVars
    /\ InitUiVars

DoConvertToCells == ConvertToCells /\ UNCHANGED <<layoutVars, patternVars, uiVars>>

NextCells == DoConvertToCells

SpecCells == InitCells /\ [][NextCells]_vars

MaxCells == 2

ValidShapes ==
    {"actor", "process", "store", "flow", "trust-boundary-box",
     "trust-broundary-curve", "td-text-block"}

ShapeAliasNames ==
    {"tm.Actor", "tm.Process", "tm.Store", "tm.Flow", "tm.Boundary", "tm.BoundaryBox"}

\* ShapeAliases[shape], for a shape that is an alias
ShapeAliases(shape) ==
    CASE shape = "tm.Actor" -> "actor"
      [] shape = "tm.Process" -> "process"
      [] shape = "tm.Store" -> "store"
      [] shape = "tm.Flow" -> "flow"
      [] OTHER -> "trust-boundary-box"

\* An object-valued property that is there
Truthy(v) == v # Undefined /\ v # Null

isValidShape(shape) ==
    shape # "" /\ (shape \in ValidShapes \/ shape \in ShapeAliasNames)

isEdgeCell(cell) ==
    \/ cell.shape = "flow"
    \/ cell.shape = "trust-broundary-curve"
    \/ Truthy(cell.source)
    \/ Truthy(cell.target)

\* createError: the code and the path (cells[index].at) of an issue
Issue(code, index, at) == [code |-> code, index |-> index, at |-> at]

\* A ValidationResult: valid is true until an error is added or merged
Result(errors, warnings) ==
    [valid |-> errors = <<>>, errors |-> errors, warnings |-> warnings]

validateNodeCell(cell, index) ==
    Result((IF ~Truthy(cell.position)
            THEN <<Issue("MISSING_POSITION", index, "position")>> ELSE <<>>)
           \o (IF ~Truthy(cell.size)
               THEN <<Issue("MISSING_SIZE", index, "size")>> ELSE <<>>),
           IF ~Truthy(cell.data)
           THEN <<Issue("MISSING_REQUIRED", index, "data")>> ELSE <<>>)

\* One end of an edge: missing is an error; a cell key that names no cell of
\* the map is an orphan warning
EdgeEnd(end, code, at, index, cellMap) ==
    IF ~Truthy(end) THEN Result(<<Issue(code, index, at)>>, <<>>)
    ELSE IF end.cell # "" /\ cellMap # {} /\ end.cell \notin cellMap
    THEN Result(<<>>, <<Issue("ORPHAN_FLOW", index, at \o ".cell")>>)
    ELSE Result(<<>>, <<>>)

validateEdgeCell(cell, index, cellMap) ==
    LET s == EdgeEnd(cell.source, "INVALID_SOURCE", "source", index, cellMap)
        t == EdgeEnd(cell.target, "INVALID_TARGET", "target", index, cellMap)
    IN  Result(s.errors \o t.errors, s.warnings \o t.warnings)

validateCell(cell, index, cellMap) ==
    LET node == IF cell.shape # "" /\ ~isEdgeCell(cell)
                THEN validateNodeCell(cell, index) ELSE Result(<<>>, <<>>)
        edge == IF isEdgeCell(cell)
                THEN validateEdgeCell(cell, index, cellMap) ELSE Result(<<>>, <<>>)
    IN  Result((IF cell.id = "" THEN <<Issue("MISSING_ID", index, "id")>> ELSE <<>>)
               \o (IF cell.shape = "" THEN <<Issue("MISSING_SHAPE", index, "shape")>>
                   ELSE IF ~isValidShape(cell.shape)
                   THEN <<Issue("INVALID_SHAPE", index, "shape")>> ELSE <<>>)
               \o node.errors \o edge.errors,
               (IF cell.zIndex = Undefined \/ cell.zIndex = Null
                THEN <<Issue("MISSING_REQUIRED", index, "zIndex")>> ELSE <<>>)
               \o node.warnings \o edge.warnings)

\* validateCells on an array: the map of the cells' ids, then every cell's
\* result merged in order
validateCells(cs) ==
    IF Len(cs) = 0 THEN Result(<<>>, <<Issue("EMPTY_MODEL", -1, "cells")>>)
    ELSE LET cellMap == {cs[i].id : i \in DOMAIN cs} \ {""}
             each == [i \in DOMAIN cs |-> validateCell(cs[i], i - 1, cellMap)]
         IN  Result(Flatten([i \in DOMAIN cs |-> each[i].errors]),
                    Flatten([i \in DOMAIN cs |-> each[i].warnings]))

\* `tm.${capitalizeFirst(shape)}`
FixedType(shape) ==
    CASE shape = "" -> "tm.Process"
      [] shape = "actor" -> "tm.Actor"
      [] shape = "process" -> "tm.Process"
      [] shape = "store" -> "tm.Store"
      [] shape = "flow" -> "tm.Flow"
      [] shape = "trust-boundary-box" -> "tm.Trust-boundary-box"
      [] shape = "trust-broundary-curve" -> "tm.Trust-broundary-curve"
      [] shape = "td-text-block" -> "tm.Td-text-block"
      [] OTHER -> "tm.Bogus"

\* The body of autoFixCells' map: the fixed copy of one cell and its fixes
FixCell(cell, index) ==
    LET alias == cell.shape # "" /\ cell.shape \in ShapeAliasNames
        c1 == IF alias THEN [cell EXCEPT !.shape = ShapeAliases(@)] ELSE cell
        noZ == c1.zIndex = Undefined
        c2 == IF noZ THEN [c1 EXCEPT !.zIndex = Num(IF isEdgeCell(c1) THEN 0 ELSE 1)]
              ELSE c1
        noData == ~Truthy(c2.data)
        c3 == IF noData
              THEN [c2 EXCEPT !.data = [name |-> IF c2.text # "" THEN c2.text ELSE "Cell",
                                        type |-> FixedType(c2.shape)]]
              ELSE c2
    IN  [cell |-> c3,
         fixes |-> (IF alias THEN <<[index |-> index, fix |-> "shape"]>> ELSE <<>>)
                   \o (IF noZ THEN <<[index |-> index, fix |-> "zIndex"]>> ELSE <<>>)
                   \o (IF noData THEN <<[index |-> index, fix |-> "data"]>> ELSE <<>>)]

\* autoFixCells on an array: fresh cell objects in a fresh array
autoFixCells(cs) ==
    LET each == [i \in DOMAIN cs |-> FixCell(cs[i], i - 1)]
    IN  [cells |-> [i \in DOMAIN cs |-> each[i].cell],
         fixes |-> Flatten([i \in DOMAIN cs |-> each[i].fixes])]

\* ValidationService.validateAndFixCells: this.mode === AUTO_FIX && !result.valid
ShouldFix(serviceMode, result) == serviceMode = AUTO_FIX /\ ~result.valid

validateAndFixCells(cs, serviceMode) ==
    LET result == validateCells(cs)
        fixed == autoFixCells(cs)
    IN  IF ShouldFix(serviceMode, result)
        THEN [result |-> validateCells(fixed.cells), cells |-> fixed.cells,
              fixes |-> fixed.fixes]
        ELSE [result |-> result, cells |-> cs, fixes |-> <<>>]

\* T2TConverter.convertFlowToCell.  label is labels[0].attrs.text.text, stroke
\* is attrs.line.stroke; the ends carry the key id
FlowProtocol(flow) == IF "protocol" \in DOMAIN flow THEN flow.protocol ELSE "HTTPS"

\* A variant of convertFlowToCell that writes no target
convertFlowToCellNoTarget(flow) ==
    [position |-> Undefined,
     size |-> Undefined,
     text |-> "",
     label |-> FlowProtocol(flow),
     stroke |-> "#2E7D32",
     shape |-> "flow",
     zIndex |-> Num(10),
     id |-> flow.id,
     data |-> [type |-> "tm.Flow",
               name |-> IF FlowProtocol(flow) = "" THEN "Data Flow" ELSE FlowProtocol(flow)],
     type |-> "",
     source |-> [id |-> flow.sourceId, cell |-> ""],
     target |-> Undefined]

\* T2TConverter.convertFlowToCell.  label is labels[0].attrs.text.text; the
\* ends are written as { id }
convertFlowToCell(flow) ==
    [position |-> Undefined,
     size |-> Undefined,
     text |-> "",
     label |-> FlowProtocol(flow),
     stroke |-> "#2E7D32",
     shape |-> "flow",
     zIndex |-> Num(10),
     id |-> flow.id,
     data |-> [type |-> "tm.Flow",
               name |-> IF FlowProtocol(flow) = "" THEN "Data Flow" ELSE FlowProtocol(flow)],
     type |-> "",
     source |-> [id |-> flow.sourceId, cell |-> ""],
     target |-> [id |-> flow.targetId, cell |-> ""]]

\* T2TConverter.buildDiagram: the elements' cells, then the flows' cells
buildDiagramCells(els, fls) ==
    [i \in DOMAIN els |-> convertElementToCell(els[i])]
    \o [i \in DOMAIN fls |-> convertFlowToCell(fls[i])]

\* The cells of the arrays handed to the renderer: cells as the converter
\* emits them (two nodes, a flow between them, a flow to an id no cell has),
\* the same flows with their ends under the key cell, and cells with one
\* defect each
NodeCell1 == convertElementToCell(DFDElement("e1", "n", "actor", 90))
NodeCell2 == convertElementToCell(DFDElement("e2", "n", "process", 90))
FlowCell1 == convertFlowToCell(DFDFlow("f1", "e1", "e2", 80))

CellInputs ==
    {NodeCell1, NodeCell2, FlowCell1,
     convertFlowToCell(DFDFlow("f1", "e1", "ghost", 80)),
     [FlowCell1 EXCEPT !.source = [id |-> "", cell |-> "e1"],
                       !.target = [id |-> "", cell |-> "e2"]],
     [FlowCell1 EXCEPT !.source = [id |-> "", cell |-> "e1"],
                       !.target = [id |-> "", cell |-> "ghost"]],
     [NodeCell2 EXCEPT !.zIndex = Undefined],
     [FlowCell1 EXCEPT !.zIndex = Undefined],
     [NodeCell1 EXCEPT !.zIndex = Null],
     [NodeCell1 EXCEPT !.id = ""],
     [NodeCell1 EXCEPT !.shape = "tm.Actor"],
     [NodeCell2 EXCEPT !.shape = "bogus"],
     [NodeCell2 EXCEPT !.data = Undefined],
     [NodeCell2 EXCEPT !.position = Undefined],
     [FlowCell1 EXCEPT !.source = Undefined]}

CellArrays == UNION {[1..n -> CellInputs] : n \in 0..MaxCells}

InitRender ==
    /\ InitDFDIRVars
    /\ InitLayoutVars
    /\ InitPatternVars
    /\ InitParserVars
    /\ wizard = NoWizard
    /\ cells \in CellArrays
    /\ mode = STRICT
    /\ lastRender = NoRender

RenderCall(op, before, result, returned, fixes) ==
    [op |-> op, mode |-> mode, before |-> before, result |-> result,
     cells |-> returned, fixes |-> fixes]

\* ValidationService.setMode
DoSetMode ==
    /\ \E m \in {STRICT, LENIENT, AUTO_FIX} :
          /\ m # mode
          /\ mode' = m
    /\ lastRender' = NoRender
    /\ UNCHANGED <<cells, dfdirVars, layoutVars, patternVars, parserVars, wizard>>

\* validateCellsForRender(cells): reads the cells, writes none
DoValidateCellsForRender ==
    /\ lastRender' = RenderCall("validateCellsForRender", cells, validateCells(cells),
                                cells, <<>>)
    /\ UNCHANGED <<cells, mode, dfdirVars, layoutVars, patternVars, parserVars, wizard>>

\* validationService.validateAndFixCells(cells)
DoValidateAndFixCells ==
    /\ \E r \in {validateAndFixCells(cells, mode)} :
          lastRender' = RenderCall("validateAndFixCells", cells, r.result, r.cells, r.fixes)
    /\ UNCHANGED <<cells, mode, dfdirVars, layoutVars, patternVars, parserVars, wizard>>

\* autoFixCells(cells), called directly
DoAutoFixCells ==
    /\ \E r \in {autoFixCells(cells)} :
          lastRender' = RenderCall("autoFixCells", cells, validateCells(r.cells),
                                   r.cells, r.fixes)
    /\ UNCHANGED <<cells, mode, dfdirVars, layoutVars, patternVars, parserVars, wizard>>

\* drawGraph(diagram, graph) on a version 2 diagram: cells that fail validation
\* are auto-fixed, and diagram.cells is replaced when a fix was made
DoDrawGraph ==
    /\ \E result \in {validateCells(cells)}, fixed \in {autoFixCells(cells)} :
          IF Len(cells) > 0 /\ ~result.valid /\ Len(fixed.fixes) > 0
          THEN /\ cells' = fixed.cells
               /\ lastRender' = RenderCall("drawGraph", cells, result, fixed.cells,
                                           fixed.fixes)
          ELSE /\ cells' = cells
               /\ lastRender' = RenderCall("drawGraph", cells, result, cells, <<>>)
    /\ UNCHANGED <<mode, dfdirVars, layoutVars, patternVars, parserVars, wizard>>

NextRender ==
    \/ DoSetMode
    \/ DoValidateCellsForRender
    \/ DoValidateAndFixCells
    \/ DoAutoFixCells
    \/ DoDrawGraph

SpecRender == InitRender /\ [][NextRender]_vars

\* The ids of the cells of an array
CellIds(cs) == {cs[i].id : i \in DOMAIN cs} \ {""}

\* The ends of edge cell i of cs, in the emitted format, that name no cell
OrphanEnds(cs, i) ==
    {at \in {"source", "target"} :
        /\ isEdgeCell(cs[i])
        /\ Truthy(cs[i][at])
        /\ cs[i][at].id # ""
        /\ cs[i][at].id \notin CellIds(cs)}

\* C21: render-time validation of a cell array in the emitted format reports
\* an orphan warning for every edge end whose id is the id of no cell of the
\* array, and no error for it
C21_OrphanEndIsWarned ==
    lastRender.op = "validateCellsForRender" =>
        \A i \in DOMAIN lastRender.before : \A at \in OrphanEnds(lastRender.before, i) :
            /\ \E w \in Range(lastRender.result.warnings) :
                  w.code = "ORPHAN_FLOW" /\ w.index = i - 1
            /\ ~\E e \in Range(lastRender.result.errors) :
                  e.index = i - 1 /\ e.at = at

\* C22: cells are changed only when auto-fix was requested: validation leaves
\* the cells as they are, validateAndFixCells returns the input cells and no
\* fix unless the mode is AUTO_FIX, and drawGraph does not replace the
\* diagram's cells unless the mode is AUTO_FIX
C22_CellsChangeOnlyOnRequest ==
    /\ lastRender.op = "validateCellsForRender" => cells = lastRender.before
    /\ (lastRender.op = "validateAndFixCells" /\ lastRender.mode # AUTO_FIX) =>
          /\ cells = lastRender.before
          /\ lastRender.cells = lastRender.before
          /\ lastRender.fixes = <<>>
    /\ (lastRender.op = "drawGraph" /\ lastRender.mode # AUTO_FIX) =>
          cells = lastRender.before

\* The cells of cs that lack zIndex
LacksZIndex(cs) == {i \in DOMAIN cs : cs[i].zIndex = Undefined \/ cs[i].zIndex = Null}

\* cs has cells, some lack zIndex, and with a zIndex on each of them the
\* array would pass validation without error or warning
OnlyZIndexMissing(cs) ==
    /\ LacksZIndex(cs) # {}
    /\ \E whole \in {validateCells([i \in DOMAIN cs |-> [cs[i] EXCEPT !.zIndex = Num(1)]])} :
          whole.errors = <<>> /\ whole.warnings = <<>>

\* C23: a cell array whose only defect is a missing zIndex is valid with a
\* zIndex warning, and autoFixCells, or validateAndFixCells in AUTO_FIX mode,
\* returns cells in which every edge cell that lacked zIndex has zIndex 0 and
\* every node cell that lacked it has zIndex 1
C23_MissingZIndexIsFixed ==
    (lastRender.op # "none" /\ OnlyZIndexMissing(lastRender.before)) =>
        /\ lastRender.op = "validateCellsForRender" =>
              /\ lastRender.result.valid
              /\ \A i \in LacksZIndex(lastRender.before) :
                    Issue("MISSING_REQUIRED", i - 1, "zIndex")
                        \in Range(lastRender.result.warnings)
        /\ (\/ lastRender.op = "autoFixCells"
            \/ lastRender.op = "validateAndFixCells" /\ lastRender.mode = AUTO_FIX) =>
              \A i \in LacksZIndex(lastRender.before) :
                  lastRender.cells[i].zIndex =
                      Num(IF isEdgeCell(lastRender.before[i]) THEN 0 ELSE 1)



(***************************************************************************)
(* JSON import (parser/t2tParser.js, components/T2TUpload.vue)             *)
(***************************************************************************)
\* A parsed JSON document: summary, detail.diagrams, projects, nodes,
\* connections and flows are the top-level keys the parser and the README
\* name; a key the document lacks is Undefined
Document(summary, diagrams, projects, nodes, connections, docFlows) ==
    [format |-> "json", summary |-> summary, diagrams |-> diagrams,
     projects |-> projects, nodes |-> nodes, connections |-> connections,
     flows |-> docFlows]

\* An array in a slot that may also be undefined
Array(items) == [k |-> "array", items |-> items]

\* One diagram of detail.diagrams: its own cells, and those of its diagramJson
Diagram(diagramCells, diagramJsonCells) ==
    [cells |-> diagramCells, diagramJson |-> diagramJsonCells]

\* T2TConverter.buildThreatModel over buildDiagram: the serialized model
buildThreatModel(els, fls) ==
    Document([title |-> "T2T Generated Threat Model"],
             Array(<<Diagram(Array(buildDiagramCells(els, fls)), Undefined)>>),
             Undefined, Undefined, Undefined, Undefined)

\* A node and a connection of the import's result
ImportNode(id, name, type) == [id |-> id, name |-> name, type |-> type]

ImportConnection(id, name, source, target, sourceId, targetId) ==
    [id |-> id, name |-> name, source |-> source, target |-> target,
     sourceId |-> sourceId, targetId |-> targetId]

Preextracted(nodes, connections) ==
    [threw |-> FALSE, error |-> "", nodes |-> nodes, connections |-> connections]

Thrown(message) ==
    [threw |-> TRUE, error |-> message, nodes |-> <<>>, connections |-> <<>>]

\* T2TParser.detectJSONFormat: the format, or "" where it throws
detectJSONFormat(doc) ==
    IF Truthy(doc.summary) /\ Truthy(doc.diagrams) THEN "threatdragon"
    ELSE IF Truthy(doc.projects) THEN "cro"
    ELSE IF Truthy(doc.nodes) THEN "simple"
    ELSE ""

NodeCellTypes == {"tm.Process", "tm.Store", "tm.Actor", "tm.Boundary"}

\* cell.type.replace('tm.', '').toLowerCase()
NodeTypeOf(type) ==
    CASE type = "tm.Process" -> "process"
      [] type = "tm.Store" -> "store"
      [] type = "tm.Actor" -> "actor"
      [] type = "tm.Boundary" -> "boundary"
      [] OTHER -> type

\* cell.source?.id
EndId(end) == IF Truthy(end) THEN end.id ELSE ""

\* T2TParser.extractFromThreatDragonFormat
extractFromThreatDragonFormat(doc) ==
    LET diagram == IF Len(doc.diagrams.items) > 0 THEN doc.diagrams.items[1]
                   ELSE Undefined
        found == /\ Truthy(diagram)
                 /\ Truthy(diagram.diagramJson)
                 /\ Truthy(diagram.diagramJson.cells)
    IN IF ~found
       THEN Thrown("No diagram cells found in Threat Dragon JSON")
       ELSE LET cs == diagram.diagramJson.cells.items
            IN Preextracted(
                 Flatten([i \in DOMAIN cs |->
                    IF cs[i].type # "tm.Flow" /\ cs[i].type \in NodeCellTypes
                    THEN <<ImportNode(cs[i].id,
                                      IF cs[i].text = "" THEN "Unknown" ELSE cs[i].text,
                                      NodeTypeOf(cs[i].type))>>
                    ELSE <<>>]),
                 Flatten([i \in DOMAIN cs |->
                    IF cs[i].type = "tm.Flow"
                    THEN <<ImportConnection(cs[i].id,
                               IF cs[i].label = "" THEN "Data Flow" ELSE cs[i].label,
                               "", "", EndId(cs[i].source), EndId(cs[i].target))>>
                    ELSE <<>>]))

\* roleToType[role] || 'process', role being croNode.role?.toLowerCase() || 'server'
RoleToType(role) ==
    CASE role \in {"attacker", "victim"} -> "actor"
      [] role = "database" -> "store"
      [] OTHER -> "process"

\* T2TParser.extractFromCROFormat
extractFromCROFormat(doc) ==
    IF Len(doc.projects.items) = 0
    THEN Thrown("No project found in CRO JSON")
    ELSE LET project == doc.projects.items[1]
         IN Preextracted(
              [i \in DOMAIN project.nodes |->
                  ImportNode(project.nodes[i].id, project.nodes[i].name,
                             RoleToType(project.nodes[i].role))],
              [i \in DOMAIN project.connections |->
                  ImportConnection(project.connections[i].id,
                      IF project.connections[i].connection_type = ""
                      THEN "network" ELSE project.connections[i].connection_type,
                      "", "", project.connections[i].source_node,
                      project.connections[i].target_node)])

\* T2TParser.extractFromSimpleFormat
extractFromSimpleFormat(doc) ==
    IF ~Truthy(doc.nodes)
    THEN Thrown("JSON must contain a \"nodes\" array")
    ELSE IF ~Truthy(doc.connections)
    THEN Thrown("JSON must contain a \"connections\" array")
    ELSE Preextracted(doc.nodes.items, doc.connections.items)

\* T2TParser.extractFromJSONFormat
extractFromJSONFormat(doc, format) ==
    CASE format = "threatdragon" -> extractFromThreatDragonFormat(doc)
      [] format = "cro" -> extractFromCROFormat(doc)
      [] OTHER -> extractFromSimpleFormat(doc)

UnrecognizedFormat ==
    "Unrecognized JSON format. Expected: Threat Dragon v2, CRO JSON, or simple nodes/connections format."

\* T2TParser.parseJSON: detection and extraction, an error of either being
\* rethrown with the prefix of the catch clause
parseJSON(doc) ==
    LET format == detectJSONFormat(doc)
        extracted == IF format = "" THEN Thrown(UnrecognizedFormat)
                     ELSE extractFromJSONFormat(doc, format)
    IN [format |-> format,
        threw |-> extracted.threw,
        error |-> IF extracted.threw
                  THEN "JSON parsing failed: " \o extracted.error ELSE "",
        nodes |-> extracted.nodes,
        connections |-> extracted.connections]

\* T2TUpload.parseFile on a JSON file: the connections get their sourceId and
\* targetId from source / target when the document has those; an error of
\* the parser becomes the validation error of the component
parseFile(doc) ==
    LET parseResult == parseJSON(doc)
    IN [op |-> "parseFile",
        format |-> parseResult.format,
        threw |-> parseResult.threw,
        validationError |-> IF parseResult.threw
                            THEN "Parsing failed: " \o parseResult.error ELSE "",
        nodes |-> parseResult.nodes,
        connections |->
            [i \in DOMAIN parseResult.connections |->
                LET conn == parseResult.connections[i]
                IN [conn EXCEPT
                     !.sourceId = IF conn.source # "" THEN conn.source ELSE conn.sourceId,
                     !.targetId = IF conn.target # "" THEN conn.target ELSE conn.targetId]]]

\* A cell of a stored diagram whose type is a property of the cell itself
TypedNodeCell(id, name, type) ==
    [convertElementToCell(DFDElement(id, name, "process", 90)) EXCEPT !.type = type]

TypedFlowCell(id, sourceId, targetId) ==
    [convertFlowToCell(DFDFlow(id, sourceId, targetId, 80)) EXCEPT !.type = "tm.Flow"]

ReadmeNodes ==
    Array(<<ImportNode("1", "Web Server", "process"),
            ImportNode("2", "Database", "store")>>)

\* The topology of the README: its connections are under the key flows
ReadmeTopology ==
    Document(Undefined, Undefined, Undefined, ReadmeNodes, Undefined,
             Array(<<ImportConnection("f1", "SQL Query", "1", "2", "", "")>>))

\* The files handed to the upload step besides the converter's own output
Documents ==
    {ReadmeTopology,
     Document(Undefined, Undefined, Undefined, ReadmeNodes,
              Array(<<ImportConnection("f1", "SQL Query", "1", "2", "", "")>>), Undefined),
     Document(Undefined, Undefined, Undefined, ReadmeNodes,
              Array(<<ImportConnection("f1", "SQL Query", "", "", "1", "2")>>), Undefined),
     Document(Undefined, Undefined, Undefined, Undefined,
              Array(<<ImportConnection("f1", "SQL Query", "1", "2", "", "")>>), Undefined),
     Document([title |-> "stored"],
              Array(<<Diagram(Undefined,
                        [cells |-> Array(<<TypedNodeCell("e1", "n", "tm.Actor"),
                                           TypedNodeCell("e2", "", "tm.Store"),
                                           TypedFlowCell("f1", "e1", "e2")>>)])>>),
              Undefined, Undefined, Undefined, Undefined),
     Document([title |-> "stored"],
              Array(<<Diagram(Array(<<TypedNodeCell("e1", "n", "tm.Process"),
                                      TypedFlowCell("f1", "e1", "e1")>>), Undefined)>>),
              Undefined, Undefined, Undefined, Undefined),
     Document([title |-> "empty"], Array(<<>>), Undefined, Undefined, Undefined, Undefined),
     Document(Undefined, Undefined,
              Array(<<[nodes |-> <<[id |-> "n1", name |-> "db", role |-> "database"],
                             [id |-> "n2", name |-> "kali", role |-> "attacker"],
                             [id |-> "n3", name |-> "gw", role |-> "router"]>>,
                 connections |-> <<[id |-> "c1", source_node |-> "n2",
                                    target_node |-> "n1", connection_type |-> ""]>>]>>),
              Undefined, Undefined, Undefined),
     Document(Undefined, Undefined, Array(<<>>), Undefined, Undefined, Undefined),
     Document(Undefined, Undefined, Undefined, Undefined, Undefined, Undefined)}

\* Saving the converter's output as a file: convert throws on an invalid
\* DFDIR and no file is written
DoConvertToFile ==
    LET dfdirResult == validateDFDIR(elements, flows)
    IN /\ IF ~dfdirResult.valid
          THEN /\ lastOp' = Outcome("convert", "", TRUE, FALSE,
                                    ConvertErrorMessages(dfdirResult.errors))
               /\ UNCHANGED parserVars
          ELSE /\ lastOp' = Outcome("convert", "", FALSE, TRUE, <<>>)
               /\ jsonData' = buildThreatModel(elements, flows)
               /\ lastParse' = NoParse
       /\ UNCHANGED <<elements, flows, layoutVars, patternVars, renderVars, wizard>>

\* Choosing a file in the upload step
DoSelectFile ==
    \E doc \in Documents :
        /\ jsonData' = doc
        /\ lastParse' = NoParse
        /\ UNCHANGED <<dfdirVars, layoutVars, patternVars, renderVars, wizard>>

\* T2TUpload.parseFile on the chosen file
DoParseFile ==
    /\ jsonData # NoDocument
    /\ lastParse' = parseFile(jsonData)
    /\ UNCHANGED <<dfdirVars, layoutVars, patternVars, renderVars, jsonData, wizard>>

\* The DFDIRs the converter is handed: one or more elements of any type with
\* distinct ids, and flows with distinct ids between the element ids, self
\* loops and an end no element has included
ImportElementLists ==
    {s \in UNION {[1..n -> {DFDElement(id, "n", type, 90)
                              : id \in ElemIds, type \in ElementTypes}]
                    : n \in 1..MaxElements} :
        \A i, j \in DOMAIN s : s[i].id = s[j].id => i = j}

ImportFlowLists ==
    {s \in UNION {[1..n -> {DFDFlow(id, sourceId, targetId, 80)
                              : id \in FlowIds, sourceId \in ElemIds,
                                targetId \in ElemIds \cup {"ghost"}}]
                    : n \in 0..MaxFlows} :
        \A i, j \in DOMAIN s : s[i].id = s[j].id => i = j}

InitImport ==
    /\ elements \in ImportElementLists
    /\ flows \in ImportFlowLists
    /\ lastOp = NoOp
    /\ InitLayoutVars
    /\ InitPatternVars
    /\ InitUiVars

NextImport == DoConvertToFile \/ DoSelectFile \/ DoParseFile

SpecImport == InitImport /\ [][NextImport]_vars

\* The cells of the first diagram of a document that has a summary and
\* detail.diagrams[0].cells; the empty sequence for every other document
DocumentedCells(doc) ==
    IF /\ doc # NoDocument
       /\ Truthy(doc.summary)
       /\ Truthy(doc.diagrams)
       /\ Len(doc.diagrams.items) > 0
       /\ Truthy(doc.diagrams.items[1].cells)
    THEN doc.diagrams.items[1].cells.items
    ELSE <<>>

\* C24: a document with a summary and detail.diagrams[0].cells (so every
\* document convert emits) is detected as the native dialect and imported
\* without error: one connection per flow cell with the cell's id, source id
\* and target id, and one node per actor, process or store cell with the
\* cell's id, name and type
C24_EmittedDocumentImports ==
    (lastParse.op = "parseFile" /\ DocumentedCells(jsonData) # <<>>) =>
        LET cs == DocumentedCells(jsonData)
        IN /\ lastParse.format = "threatdragon"
           /\ ~lastParse.threw
           /\ [i \in DOMAIN lastParse.connections |->
                  <<lastParse.connections[i].id, lastParse.connections[i].sourceId,
                    lastParse.connections[i].targetId>>]
              = Flatten([i \in DOMAIN cs |->
                  IF cs[i].shape = "flow"
                  THEN <<<<cs[i].id, cs[i].source.id, cs[i].target.id>>>>
                  ELSE <<>>])
           /\ lastParse.nodes
              = Flatten([i \in DOMAIN cs |->
                  IF cs[i].shape \in ElementTypes
                  THEN <<ImportNode(cs[i].id, cs[i].data.name, cs[i].shape)>>
                  ELSE <<>>])

\* C25: the topology format of the README, nodes plus flows with source and
\* target, is accepted by the JSON import and yields the nodes and one
\* connection per flow, from the flow's source to its target
C25_ReadmeTopologyImports ==
    (lastParse.op = "parseFile" /\ jsonData = ReadmeTopology) =>
        /\ ~lastParse.threw
        /\ lastParse.nodes = ReadmeTopology.nodes.items
        /\ [i \in DOMAIN lastParse.connections |->
               <<lastParse.connections[i].id, lastParse.connections[i].sourceId,
                 lastParse.connections[i].targetId>>]
           = [i \in DOMAIN ReadmeTopology.flows.items |->
               <<ReadmeTopology.flows.items[i].id, ReadmeTopology.flows.items[i].source,
                 ReadmeTopology.flows.items[i].target>>]


(***************************************************************************)
(* Conversion followed by validation (converter/t2tConverter.js)           *)
(***************************************************************************)
\* T2TConverter.convertAndValidate: convert throws on an invalid DFDIR;
\* otherwise the model's cells are validated for rendering and the result is
\* merged into that of the schema validation, whose verdict is not decided
\* by the cells
convertAndValidate(els, fls, schemaValid) ==
    LET dfdirResult == validateDFDIR(els, fls)
        emitted == buildDiagramCells(els, fls)
        cellResult == validateCells(emitted)
    IN IF ~dfdirResult.valid
       THEN [op |-> "convertAndValidate", id |-> "", threw |-> TRUE, ret |-> FALSE,
             msgs |-> ConvertErrorMessages(dfdirResult.errors),
             cells |-> <<>>, valid |-> FALSE, cellErrors |-> <<>>]
       ELSE [op |-> "convertAndValidate", id |-> "", threw |-> FALSE, ret |-> TRUE,
             msgs |-> <<>>,
             cells |-> emitted,
             valid |-> schemaValid /\ cellResult.valid,
             cellErrors |-> cellResult.errors]

DoConvertAndValidate ==
    \E schemaValid \in BOOLEAN :
        /\ lastOp' = convertAndValidate(elements, flows, schemaValid)
        /\ UNCHANGED <<elements, flows, layoutVars, patternVars, uiVars>>

NextPipeline ==
    \/ DoAddElement
    \/ DoAddFlow
    \/ DoRemoveElement
    \/ DoRemoveFlow
    \/ DoConvertAndValidate

SpecPipeline == Init /\ [][NextPipeline]_vars

SlotX(k, j) ==
    snapToGrid(Max(100, (canvasWidth - (k - 1) * nodeSpacing) \div 2) + j * nodeSpacing)

\* C27: in the hierarchical layout of any graph with a root, every node is in
\* one level once, so the nodes standing on a level fill the consecutive,
\* evenly spaced slots of a level of that many nodes, none left empty
C27_LevelSlotsAreFilled ==
    (layoutCall.layoutType = "hierarchical" /\ ~layoutCall.threw /\ RootIds # {}) =>
        \A i \in DOMAIN layoutNodes :
            LET level == {j \in DOMAIN layoutNodes : layoutNodes[j].y = layoutNodes[i].y}
            IN {layoutNodes[j].x : j \in level}
                  = {SlotX(Cardinality(level), slot) : slot \in 0..(Cardinality(level) - 1)}


(***************************************************************************)
(* Import wizard (components/T2TImportWizard.vue)                          *)
(***************************************************************************)
MaxTasks == 2

\* An async method of the wizard that was called and has not finished: it
\* is waiting for its dynamic imports (generateThreatModel awaits three in a
\* row and touches nothing of the wizard between them)
Task(fn) == [fn |-> fn]

\* A string in a slot that may also be null
Str(s) == [k |-> "string", v |-> s]

\* data()
WizardData ==
    [mounted |-> TRUE,
     currentStep |-> 0,
     parsedText |-> Null,
     extractedNodes |-> <<>>,
     extractedFlows |-> <<>>,
     validatedNodes |-> <<>>,
     validatedFlows |-> <<>>,
     selectedLayout |-> "tiered",
     positionedNodes |-> <<>>,
     generatedThreatModel |-> Null,
     threatModelValidation |-> Null,
     error |-> "",
     imported |-> FALSE,
     tasks |-> <<>>]

\* imported: whether the last step emitted 'threat-model-imported'; it is
\* the event of the wizard, the other fields are its data

LastStep == 4

\* computed canProceedToNextStep
canProceedToNextStep(w) ==
    CASE w.currentStep = 0 -> w.parsedText # Null
      [] w.currentStep = 1 -> Len(w.validatedNodes) > 0
      [] w.currentStep = 2 -> TRUE
      [] w.currentStep = 3 -> w.selectedLayout # ""
      [] w.currentStep = 4 -> w.generatedThreatModel # Null
      [] OTHER -> FALSE

\* computed canImport
canImport(w) ==
    /\ w.generatedThreatModel # Null
    /\ w.threatModelValidation # Null
    /\ w.threatModelValidation.valid

\* The result of the upload step: two nodes with a flow between them
WizardInputs ==
    {<<<<DFDElement("e1", "n", "actor", 100), DFDElement("e2", "n", "process", 100)>>,
       <<DFDFlow("f1", "e1", "e2", 100)>>>>}

\* handleFileParsed
handleFileParsed(w, nodes, connections) ==
    [w EXCEPT !.parsedText = Str(""),
              !.extractedNodes = nodes,
              !.extractedFlows = connections,
              !.validatedNodes = nodes,
              !.validatedFlows = connections,
              !.error = ""]

\* nextStep: the step is advanced, and the call of applyLayout or of
\* generateThreatModel runs to its first await
nextStep(w) ==
    LET step == w.currentStep + 1
    IN [w EXCEPT !.currentStep = step,
                 !.tasks = IF step = 3 THEN Append(@, Task("applyLayout"))
                           ELSE IF step = 4 THEN Append(@, Task("generateThreatModel"))
                           ELSE @]

\* previousStep
previousStep(w) == [w EXCEPT !.currentStep = @ - 1]

\* dfdir.addElement / dfdir.addFlow throw on an id that is already there
HasDuplicateId(items) ==
    \E i, j \in DOMAIN items : i < j /\ items[i].id = items[j].id

\* The part of generateThreatModel after its awaits: the DFDIR is built from
\* positionedNodes and validatedFlows and converted; an error of any step is
\* caught and stored, and nothing else is written
generateThreatModel(w, schemaValid) ==
    LET converted == convertAndValidate(w.positionedNodes, w.validatedFlows, schemaValid)
    IN IF \/ HasDuplicateId(w.positionedNodes)
          \/ HasDuplicateId(w.validatedFlows)
          \/ converted.threw
       THEN [w EXCEPT !.error = "Threat model generation failed"]
       ELSE [w EXCEPT !.generatedThreatModel =
                          [layout |-> w.selectedLayout, cells |-> converted.cells],
                      !.threatModelValidation = [valid |-> converted.valid]]

\* The wizard after the task at index i ran the rest of generateThreatModel
FinishGenerate(w, i, schemaValid) ==
    [generateThreatModel(w, schemaValid) EXCEPT !.tasks = RemoveAt(w.tasks, i)]

\* T2TLayout.calculateLayout as a function of its arguments
LayoutOf(ns, conns, layoutType) ==
    CASE layoutType = "tiered" -> calculateTieredLayout(ns)
      [] layoutType = "radial" -> calculateRadialLayout(ns)
      [] layoutType = "hierarchical" -> calculateHierarchicalLayout(ns, conns)

\* The part of applyLayout after its await, for the task at index i: the
\* layout of the nodes, flows and layout type the wizard has by then (the
\* x and y it also leaves on the node objects of validatedNodes are read by
\* no step of the wizard and by no layout)
applyLayout(w, i) ==
    [w EXCEPT !.positionedNodes =
                  LayoutOf(w.validatedNodes, w.validatedFlows, w.selectedLayout),
              !.tasks = RemoveAt(@, i)]

\* resetWizard: the calls in flight are not cancelled
resetWizard(w) == [WizardData EXCEPT !.tasks = w.tasks]

InitWizard ==
    /\ InitDFDIRVars
    /\ InitLayoutVars
    /\ InitPatternVars
    /\ InitRenderVars
    /\ InitParserVars
    /\ wizard = WizardData

\* The upload step reports a parsed file
DoHandleFileParsed ==
    /\ wizard.currentStep = 0
    /\ \E input \in WizardInputs :
          wizard' = [handleFileParsed(wizard, input[1], input[2]) EXCEPT !.imported = FALSE]
    /\ UNCHANGED <<dfdirVars, layoutVars, patternVars, renderVars, parserVars>>

\* handleNodesUpdated: the node table reports its list after a removal
DoHandleNodesUpdated ==
    /\ wizard.currentStep = 1
    /\ \E i \in DOMAIN wizard.validatedNodes :
          wizard' = [wizard EXCEPT !.validatedNodes = RemoveAt(@, i), !.imported = FALSE]
    /\ UNCHANGED <<dfdirVars, layoutVars, patternVars, renderVars, parserVars>>

\* handleFlowsUpdated: the flow table reports its list after a removal
DoHandleFlowsUpdated ==
    /\ wizard.currentStep = 2
    /\ \E i \in DOMAIN wizard.validatedFlows :
          wizard' = [wizard EXCEPT !.validatedFlows = RemoveAt(@, i), !.imported = FALSE]
    /\ UNCHANGED <<dfdirVars, layoutVars, patternVars, renderVars, parserVars>>

\* handleLayoutSelected
DoHandleLayoutSelected ==
    /\ wizard.currentStep = 3
    /\ \E layoutType \in LayoutAlgorithms :
          wizard' = [wizard EXCEPT !.selectedLayout = layoutType, !.imported = FALSE]
    /\ UNCHANGED <<dfdirVars, layoutVars, patternVars, renderVars, parserVars>>

\* The Next button, shown before the last step and enabled by
\* canProceedToNextStep
DoNextStep ==
    /\ wizard.currentStep < LastStep
    /\ canProceedToNextStep(wizard)
    /\ Len(wizard.tasks) < MaxTasks
    /\ wizard' = [nextStep(wizard) EXCEPT !.imported = FALSE]
    /\ UNCHANGED <<dfdirVars, layoutVars, patternVars, renderVars, parserVars>>

\* The Previous button
DoPreviousStep ==
    /\ wizard.currentStep > 0
    /\ wizard' = [previousStep(wizard) EXCEPT !.imported = FALSE]
    /\ UNCHANGED <<dfdirVars, layoutVars, patternVars, renderVars, parserVars>>

\* applyLayout after its await
DoApplyLayoutResume ==
    /\ \E i \in DOMAIN wizard.tasks :
          /\ wizard.tasks[i].fn = "applyLayout"
          /\ wizard' = [applyLayout(wizard, i) EXCEPT !.imported = FALSE]
    /\ UNCHANGED <<dfdirVars, layoutVars, patternVars, renderVars, parserVars>>

\* generateThreatModel after its awaits
DoGenerateResume ==
    /\ \E i \in DOMAIN wizard.tasks :
          /\ wizard.tasks[i].fn = "generateThreatModel"
          /\ \E schemaValid \in BOOLEAN :
                wizard' = [FinishGenerate(wizard, i, schemaValid) EXCEPT !.imported = FALSE]
    /\ UNCHANGED <<dfdirVars, layoutVars, patternVars, renderVars, parserVars>>

\* The Import button, shown on the last step and enabled by canImport: the
\* model is emitted and the modal is hidden, which resets the wizard
DoImportThreatModel ==
    /\ wizard.currentStep = LastStep
    /\ canImport(wizard)
    /\ wizard' = [resetWizard(wizard) EXCEPT !.imported = TRUE]
    /\ UNCHANGED <<dfdirVars, layoutVars, patternVars, renderVars, parserVars>>

\* The Cancel button: the modal is hidden, which resets the wizard
DoResetWizard ==
    /\ wizard' = resetWizard(wizard)
    /\ UNCHANGED <<dfdirVars, layoutVars, patternVars, renderVars, parserVars>>

NextWizard ==
    \/ DoHandleFileParsed
    \/ DoHandleNodesUpdated
    \/ DoHandleFlowsUpdated
    \/ DoHandleLayoutSelected
    \/ DoNextStep
    \/ DoPreviousStep
    \/ DoApplyLayoutResume
    \/ DoGenerateResume
    \/ DoImportThreatModel
    \/ DoResetWizard

SpecWizard == InitWizard /\ [][NextWizard]_vars


\* The node cells and the flow cells of a generated model, in order
NodeCellsOf(model) == SelectSeq(model.cells, LAMBDA c : c.shape # "flow")

FlowCellsOf(model) == SelectSeq(model.cells, LAMBDA c : c.shape = "flow")

\* C28: the node positions of the generated model are those that the layout
\* selected on the Select Layout step (the one the model's description
\* names) computes for the model's nodes and flows
C28_ModelUsesSelectedLayout ==
    (wizard.mounted /\ wizard.generatedThreatModel # Null) =>
        LET model == wizard.generatedThreatModel
            nodeCells == NodeCellsOf(model)
            flowCells == FlowCellsOf(model)
            laidOut == LayoutOf([i \in DOMAIN nodeCells |->
                                    [id |-> nodeCells[i].id, type |-> nodeCells[i].shape,
                                     x |-> 100, y |-> 100]],
                                [i \in DOMAIN flowCells |->
                                    [sourceId |-> flowCells[i].source.id,
                                     targetId |-> flowCells[i].target.id]],
                                model.layout)
        IN \A i \in DOMAIN nodeCells :
              /\ nodeCells[i].position.x = laidOut[i].x
              /\ nodeCells[i].position.y = laidOut[i].y

\* C29: whenever the Import button is offered and enabled (last step,
\* canImport, no call in flight), the generated model was produced from the
\* current validatedNodes and validatedFlows
C29_ImportableModelIsCurrent ==
    (/\ wizard.mounted
     /\ wizard.currentStep = LastStep
     /\ wizard.tasks = <<>>
     /\ canImport(wizard)) =>
        LET model == wizard.generatedThreatModel
            nodeCells == NodeCellsOf(model)
            flowCells == FlowCellsOf(model)
        IN /\ [i \in DOMAIN nodeCells |-> nodeCells[i].id]
              = [i \in DOMAIN wizard.validatedNodes |-> wizard.validatedNodes[i].id]
           /\ [i \in DOMAIN flowCells |->
                  <<flowCells[i].id, flowCells[i].source.id, flowCells[i].target.id>>]
              = [i \in DOMAIN wizard.validatedFlows |->
                  <<wizard.validatedFlows[i].id, wizard.validatedFlows[i].sourceId,
                    wizard.validatedFlows[i].targetId>>]

\* C30: in every interleaving, when a call of generateThreatModel reads
\* positionedNodes (the step after its awaits), no call of applyLayout
\* started before it is still in flight
C30_GenerateAfterPrecedingLayout ==
    [][wizard.mounted =>
          \A i \in DOMAIN wizard.tasks :
             (/\ wizard.tasks[i].fn = "generateThreatModel"
              /\ \E schemaValid \in BOOLEAN :
                    wizard' = FinishGenerate(wizard, i, schemaValid))
             => \A j \in 1..(i - 1) : wizard.tasks[j].fn # "applyLayout"]_vars

====
